---------------------------- MODULE Spec2Model ----------------------------
(***************************************************************************)
(* A model of rnews (src/frontends/rnews.c): the batch decoder UnpackOne,  *)
(* the article framers ReadBytecount and ReadRemainder, the offer protocol *)
(* Process, the spooling routine Spool, the replay pass Unspool and the    *)
(* control flow of main.                                                   *)
(*                                                                         *)
(* A byte is a natural number.  Bytes below 256 are themselves.  A number  *)
(* in 300..399 stands for the text of one header line without its newline  *)
(* ("Newsgroups: a.b"), so that an article is a short sequence; a number   *)
(* of 1000 or more is a byte of compressed data (see Gz).                  *)
(***************************************************************************)
EXTENDS Integers, Sequences, FiniteSets, TLC

(***************************************************************************)
(* Bounds of the model.                                                    *)
(***************************************************************************)
\* The largest number of byte-counted articles in one generated batch.
MaxArts == 2
\* The largest number of entries in the spool directory of a replay pass.
MaxSpool == 2
\* The retry ceilings (innconf->maxforks) looked at: 0..MaxForks.
MaxForks == 2

(***************************************************************************)
(* Program constants.                                                      *)
(***************************************************************************)
NL == 10
CR == 13
NUL == 0
RNEWS_MAGIC1 == 35
RNEWS_MAGIC2 == 33
GZ_MAGIC1 == 31
GZ_MAGIC2 == 139
Z_MAGIC2 == 157
SMBUF == 256

NNTP_SENDIT_VAL == 335
NNTP_HAVEIT_VAL == 435
NNTP_RESENDIT_VAL == 436
NNTP_REJECTIT_VAL == 437
NNTP_TOOKIT_VAL == 240
\* A numeric status that is none of the five above.
OtherCode == 500
\* What fgets() on FromServer yields besides a line that starts with a digit:
\* NULL (a failed read), or a line whose first character is no digit.
ReadFailed == -1
NonNumeric == -2

\* The exit status of sysdie().
DieStatus == 1
\* exit(9) of Spool() in no-spool mode.
NoSpoolStatus == 9
\* exit(0) at the end of main(), after the batch was delivered.
DeliveredStatus == 0
\* exit(status) hands the low eight bits of status to the parent (status & 0377).
ExitModulus == 256

(***************************************************************************)
(* The header lines of an article, RequiredHeaders[] in the order of the   *)
(* table.  MsgIdTok(k) is "Message-ID: <k>".                               *)
(***************************************************************************)
MsgIdBase == 300
H_Newsgroups == 351
H_From == 352
H_Date == 353
H_Subject == 354
H_Path == 355

MsgIdTok(k) == MsgIdBase + k
IsMsgId(b) == b > MsgIdBase /\ b < H_Newsgroups
RequiredHeaders == <<"Message-ID", "Newsgroups", "From", "Date", "Subject", "Path">>

IsHeaderTok(name, b) ==
    CASE name = "Message-ID" -> IsMsgId(b)
      [] name = "Newsgroups" -> b = H_Newsgroups
      [] name = "From"       -> b = H_From
      [] name = "Date"       -> b = H_Date
      [] name = "Subject"    -> b = H_Subject
      [] name = "Path"       -> b = H_Path

(***************************************************************************)
(* Sequences.                                                              *)
(***************************************************************************)
Drop(s, n) == IF n >= Len(s) THEN <<>> ELSE SubSeq(s, n + 1, Len(s))
Take(s, n) == IF n >= Len(s) THEN s ELSE SubSeq(s, 1, n)

RECURSIVE Concat(_)
Concat(ss) == IF ss = <<>> THEN <<>> ELSE Head(ss) \o Concat(Tail(ss))

\* The index of the first b in s at or after i, 0 when there is none (strchr).
IndexFrom(s, b, i) ==
    IF \E j \in i..Len(s) : s[j] = b
    THEN CHOOSE j \in i..Len(s) : s[j] = b /\ \A k \in i..(j - 1) : s[k] # b
    ELSE 0
IndexOf(s, b) == IndexFrom(s, b, 1)

\* A buffer read as a C string: the bytes before the first NUL.
CStr(buf) == IF IndexOf(buf, NUL) = 0 THEN buf ELSE Take(buf, IndexOf(buf, NUL) - 1)

(***************************************************************************)
(* Decimal numbers: Digits writes one, Atoi reads one as atoi() does       *)
(* (leading white space, an optional sign, digits up to the first byte     *)
(* that is no digit; 0 when there is no digit).                            *)
(***************************************************************************)
RECURSIVE Digits(_)
Digits(n) == IF n < 10 THEN <<48 + n>> ELSE Digits(n \div 10) \o <<48 + (n % 10)>>

IsDigit(b) == b >= 48 /\ b <= 57
IsSpace(b) == b \in {32, 9, 10, 11, 12, 13}

RECURSIVE AtoiDigits(_, _)
AtoiDigits(s, acc) ==
    IF s = <<>> \/ ~IsDigit(Head(s)) THEN acc
    ELSE AtoiDigits(Tail(s), 10 * acc + (Head(s) - 48))

RECURSIVE Atoi(_)
Atoi(s) ==
    IF s = <<>> THEN 0
    ELSE IF IsSpace(Head(s)) THEN Atoi(Tail(s))
    ELSE IF Head(s) = 45 THEN 0 - AtoiDigits(Tail(s), 0)
    ELSE IF Head(s) = 43 THEN AtoiDigits(Tail(s), 0)
    ELSE AtoiDigits(s, 0)

(***************************************************************************)
(* Articles and batches: the inputs the model runs rnews on.               *)
(***************************************************************************)
\* An article with the six required headers, a blank line and a body.
ArtOk(k) == <<MsgIdTok(k), NL, H_Newsgroups, NL, H_From, NL, H_Date, NL,
              H_Subject, NL, H_Path, NL, NL, 120, NL>>
\* The same article without its Date header.
ArtNoDate(k) == <<MsgIdTok(k), NL, H_Newsgroups, NL, H_From, NL,
                  H_Subject, NL, H_Path, NL, NL, 120, NL>>
\* An article whose last header is Message-ID, cut by a NUL byte before the
\* newline of that header.
ArtUnterminated(k) == <<H_Newsgroups, NL, H_From, NL, H_Date, NL, H_Subject, NL,
                        H_Path, NL, MsgIdTok(k), NUL, 120, NL>>

\* The text s with every line ended by CR LF instead of LF.
RECURSIVE Crlf(_)
Crlf(s) ==
    IF s = <<>> THEN <<>>
    ELSE (IF Head(s) = NL THEN <<CR, NL>> ELSE <<Head(s)>>) \o Crlf(Tail(s))

\* "#! rnews <n>\n" and "#! cunbatch\n"
RnewsPrefix == <<35, 33, 32, 114, 110, 101, 119, 115, 32>>
RnewsLine(n) == RnewsPrefix \o Digits(n) \o <<NL>>
CunbatchCmd == <<35, 33, 32, 99, 117, 110, 98, 97, 116, 99, 104>>
CunbatchLine == CunbatchCmd \o <<NL>>
\* "#! foo\n": a command that is neither rnews nor cunbatch.
OtherCmdLine == <<35, 33, 32, 102, 111, 111, NL>>

\* One byte-counted unit, and a batch of n of them of which article `bad`
\* (0: none) lacks its Date header.
Unit(a) == RnewsLine(Len(a)) \o a
Batch(n, bad) ==
    Concat([i \in 1..n |-> Unit(IF i = bad THEN ArtNoDate(i) ELSE ArtOk(i))])

(***************************************************************************)
(* The helper "gzip -d".  Gz(s) is a compressed file holding s: the two    *)
(* magic bytes, then one compressed byte for each byte of s.  Gunzip(s) is *)
(* what the helper writes to its standard output when its standard input   *)
(* is s: the decoded bytes when s starts with the magic (gzip or compress),*)
(* nothing when it does not; bytes after the compressed data are ignored.  *)
(***************************************************************************)
ZBase == 1000
Gz(s) == <<GZ_MAGIC1, GZ_MAGIC2>> \o [i \in 1..Len(s) |-> s[i] + ZBase]

\* The length of the compressed data at the head of s.
ZPrefixLen(s) ==
    IF \E j \in 1..Len(s) : s[j] < ZBase
    THEN (CHOOSE j \in 1..Len(s) : s[j] < ZBase /\ \A k \in 1..(j - 1) : s[k] >= ZBase) - 1
    ELSE Len(s)

Gunzip(s) ==
    IF Len(s) >= 2 /\ s[1] = GZ_MAGIC1 /\ s[2] \in {GZ_MAGIC2, Z_MAGIC2}
    THEN LET body == Drop(s, 2)
             n == ZPrefixLen(body)
         IN  [i \in 1..n |-> body[i] - ZBase]
    ELSE <<>>

(***************************************************************************)
(* ReadLine: read bytes one at a time up to a newline.                     *)
(*   "ok"      a newline within the first `size` bytes: line, bytes used   *)
(*   "die"     the stream ends before a newline: sysdie()                  *)
(*   "toolong" `size` bytes and no newline: warn, return FALSE             *)
(***************************************************************************)
ReadLine(size, s) ==
    LET i == IndexOf(s, NL) IN
    IF i # 0 /\ i <= size
    THEN [res |-> "ok", line |-> Take(s, i - 1), used |-> i]
    ELSE IF Len(s) < size
    THEN [res |-> "die", line |-> s, used |-> Len(s)]
    ELSE [res |-> "toolong", line |-> Take(s, size), used |-> size]

(***************************************************************************)
(* ReadBytecount: the article buffer after reading artsize bytes.  The     *)
(* read is short when the stream holds fewer bytes.                        *)
(***************************************************************************)
\* BytecountShort of a ReadBytecount that forwards what it got.
BytecountShortForwards(s, artsize) == FALSE

BytecountShort(s, artsize) == Len(s) < artsize
\* BytecountArticle with a newline appended whatever the last byte is.
BytecountArticleAlwaysNewline(s, artsize) == Take(s, artsize) \o <<NL>>

BytecountArticle(s, artsize) ==
    LET a == Take(s, artsize)
    IN  IF a[Len(a)] # NL THEN a \o <<NL>> ELSE a

(***************************************************************************)
(* ReadRemainder: the article buffer built from the bytes already read     *)
(* (first, second; second = NUL when only one was read) and the rest of    *)
(* the stream, one fgets() line at a time.  A line whose last byte but one *)
(* is a carriage return has that byte set to a newline and its last byte   *)
(* set to NUL, while `used` still advances by the line's old length.       *)
(* Lines are taken to be shorter than the buffer (BUFSIZ).                 *)
(***************************************************************************)
RECURSIVE Lines(_)
Lines(s) ==
    IF s = <<>> THEN <<>>
    ELSE LET i == IndexOf(s, NL)
         IN  IF i = 0 THEN <<s>> ELSE <<Take(s, i)>> \o Lines(Drop(s, i))

AddLine(buf, line) ==
    LET b == buf \o line
        n == Len(b)
    IN  IF b[n - 1] = CR THEN [b EXCEPT ![n - 1] = NL, ![n] = NUL] ELSE b

RECURSIVE AddLines(_, _)
AddLines(buf, ls) ==
    IF ls = <<>> THEN buf ELSE AddLines(AddLine(buf, Head(ls)), Tail(ls))

\* RemainderBuffer with a second newline at the end of the buffer dropped.
RemainderBufferOneNewline(first, second, s) ==
    LET start == IF second # NUL THEN <<first, second>> ELSE <<first>>
        buf == AddLines(start, Lines(s))
        n == Len(buf)
    IN  IF buf[n] # NL THEN buf \o <<NL>>
        ELSE IF n >= 2 /\ buf[n - 1] = NL THEN Take(buf, n - 1) ELSE buf

RemainderBuffer(first, second, s) ==
    LET start == IF second # NUL THEN <<first, second>> ELSE <<first>>
        buf == AddLines(start, Lines(s))
    IN  IF buf[Len(buf)] # NL THEN buf \o <<NL>> ELSE buf

(***************************************************************************)
(* HeaderFindMem (libinn): the index of the value of header `name` in the  *)
(* article, 0 when the header section (the lines before the first empty    *)
(* line) has no line that starts with it.                                  *)
(***************************************************************************)
RECURSIVE HeaderFindFrom(_, _, _)
HeaderFindFrom(art, name, i) ==
    IF i > Len(art) \/ art[i] = NL THEN 0
    ELSE IF IsHeaderTok(name, art[i]) THEN i
    ELSE LET j == IndexFrom(art, NL, i)
         IN  IF j = 0 THEN 0 ELSE HeaderFindFrom(art, name, j + 1)
HeaderFindMem(art, name) == HeaderFindFrom(art, name, 1)

\* The first required header the article lacks, "" when it has them all.
RECURSIVE FirstMissing(_, _)
FirstMissing(art, i) ==
    IF i > Len(RequiredHeaders) THEN ""
    ELSE IF HeaderFindMem(art, RequiredHeaders[i]) = 0 THEN RequiredHeaders[i]
    ELSE FirstMissing(art, i + 1)

\* The number k of the article's "Message-ID: <k>" header.
MessageIdOf(art) == art[HeaderFindMem(art, "Message-ID")] - MsgIdBase
\* The same, and 0 for an article without the header.
ArticleId(art) == IF HeaderFindMem(art, "Message-ID") = 0 THEN 0 ELSE MessageIdOf(art)
\* strchr(id, '\n') finds the end of the Message-ID header.
MessageIdTerminated(art) ==
    IndexFrom(art, NL, HeaderFindMem(art, "Message-ID")) # 0

(***************************************************************************)
(* The state of one invocation of rnews.                                   *)
(***************************************************************************)
VARIABLES
    mode,         \* "" (foreground), "N" (no-spool) or "U" (replay the spool)
    progs,        \* DO_RNEWSPROGS: unknown "#!" commands name unpack programs
    seekable,     \* the descriptor main() starts with is a file (lseek works)
    input,        \* the bytes of the batch at hand: standard input, or the spool file
    pc,           \* where the control is
    status,       \* the exit status; Running until exit() is called
    fdkind,       \* *fdp: "file" (the descriptor opened first), "pipe" (a child's
                  \* output) or "bad" (-1, after StartChild failed)
    rest,         \* the bytes a read() of *fdp has still to return
    gzip, HadCount, SawCunbatch, count,   \* the locals of UnpackOne
    article,      \* the buffer handed to Process
    caller,       \* who called Process: "bytecount" or "remainder"
    ok,           \* what UnpackOne returned
    wire,         \* what was written to ToServer and read from FromServer, in order
    outcomes,     \* how each call of Process (and each short read) ended, in order:
                  \* the article's Message-ID number, the way out, the value returned
    spool,        \* the files of pathincoming whose names do not start with a dot
    tmp,          \* the dot files of pathincoming (temporary spool files)
    bad,          \* the files of PathBadNews, each with the name it had in the spool
    spawned,      \* children started by StartChild
    reaped,       \* children a waitpid() of WaitForChildren returned
    todo,         \* replay: the directory entries readdir() has still to return
    cur,          \* replay: the name of the entry opened last, 0 when none
    mark,         \* the lengths of wire and of outcomes when UnpackOne was called
                  \* for this batch
    faults,       \* the system calls that failed (fork, write, rename, ...)
    lock,         \* replay: this pass holds its read lock on the entry opened last
    waits,        \* the calls of waitpid() WaitForChildren has made for the batch
    other,        \* replay: the entry a second replay pass of the same directory
                  \* holds locked and is processing; 0 before, -1 after
    spoolfile,    \* replay: the name a foreground rnews spooling into the same
                  \* directory has created with mkstemp(spoolfile) and has still
                  \* to rename its temporary file onto; 0 before, -1 after
    maxforks,     \* innconf->maxforks: how many failed fork() calls are retried
    forks         \* the calls of fork() and sleep() the last StartChild made, and
                  \* what it returned

vars == <<mode, progs, seekable, input, pc, status, fdkind, rest, gzip, HadCount,
          SawCunbatch, count, article, caller, ok, wire, outcomes, spool, tmp, bad,
          spawned, reaped, todo, cur, mark, faults, lock, waits, other,
          spoolfile, maxforks, forks>>

Running == 0 - 1

(***************************************************************************)
(* The inputs.  Generated: every batch of 1..MaxArts byte-counted articles *)
(* of which at most one lacks its Date header, and the batches of valid    *)
(* articles compressed, with and without a "#! cunbatch" line.  Special:   *)
(* one input for each other path of the decoder.                           *)
(***************************************************************************)
PlainBatches == {Batch(n, b) : n \in 1..MaxArts, b \in 0..MaxArts}
PackedBatches ==
    {Gz(Batch(n, 0)) : n \in 1..MaxArts}
        \cup {CunbatchLine \o Gz(Batch(n, 0)) : n \in 1..MaxArts}
SpecialInputs ==
    { <<>>,                                         \* empty input
      ArtOk(1),                                     \* one raw article
      ArtNoDate(1),
      Crlf(ArtOk(1)),                               \* CR LF line endings
      ArtOk(1) \o <<NL>>,                           \* two newlines at the end
      Take(ArtOk(1), Len(ArtOk(1)) - 1),            \* no newline at the end
      <<RNEWS_MAGIC1>>,                             \* a one-byte batch
      <<RNEWS_MAGIC1, 120, NL>>,               \* '#' and no '!'
      Unit(<<NUL>>),                                \* an empty article
      Unit(ArtUnterminated(1)) \o Unit(ArtOk(2)),
      RnewsLine(Len(ArtOk(1)) + 5) \o ArtOk(1),     \* fewer bytes than declared
      RnewsLine(0) \o ArtOk(1),                     \* a count that is not positive
      RnewsPrefix \o <<45, 53, NL>> \o ArtOk(1),                       \* "-5"
      RnewsPrefix \o <<120, NL>> \o ArtOk(1),                          \* "x"
      RnewsPrefix \o Digits(Len(ArtOk(1))) \o <<120, NL>> \o ArtOk(1),  \* "15x"
      RnewsLine(Len(ArtOk(1)) - 1) \o ArtOk(1),     \* a count that ends before the newline
      Take(RnewsLine(15), 6),                       \* a command line cut by end of file
      <<RNEWS_MAGIC1, RNEWS_MAGIC2>> \o [i \in 1..SMBUF |-> 120],
      Unit(ArtOk(1)) \o ArtOk(2),                   \* raw text after a counted article
      Unit(ArtOk(1)) \o <<RNEWS_MAGIC1, 120, NL>>,  \* '#' and no '!' after one
      Unit(ArtOk(1)) \o CunbatchLine \o Gz(Unit(ArtOk(2))),
      CunbatchLine \o Gz(CunbatchLine \o Gz(Unit(ArtOk(1)))),
      Gz(Gz(Unit(ArtOk(1)))),
      Gz(CunbatchLine \o Gz(Unit(ArtOk(1)))),
      OtherCmdLine \o Gz(Unit(ArtOk(1))),
      Gz(<<RNEWS_MAGIC1, GZ_MAGIC2>> \o Gz(Unit(ArtOk(1)))),   \* '#' 0x8b after a magic
      <<GZ_MAGIC1>> \o Drop(OtherCmdLine, 1),                  \* 0x1f and '!'
      [i \in 1..ExitModulus |-> 120] }             \* as many bytes as exit statuses

Inputs == PlainBatches \cup PackedBatches \cup SpecialInputs
\* The inputs given to every retry ceiling; the others are given the ceiling 0.
RetriedBatches == {Gz(Batch(1, 0)), CunbatchLine \o Gz(Batch(1, 0))}

\* The spool directories of a replay pass: one file holding any of the inputs,
\* or 2..MaxSpool files: a batch of one article, a raw article, a one-byte
\* file, and so on.
SpoolFile(i) ==
    CASE i % 3 = 1 -> Batch(1, 0)
      [] i % 3 = 2 -> ArtOk(2)
      [] OTHER     -> <<RNEWS_MAGIC1>>
SpoolDirs ==
    { [n \in 1..1 |-> b] : b \in Inputs }
        \cup { [n \in 1..m |-> SpoolFile(n)] : m \in 2..MaxSpool }

DirEntries(d) == { [name |-> n, content |-> d[n]] : n \in DOMAIN d }

Init ==
    /\ mode \in {"", "N", "U"}
    /\ \/ /\ mode = ""
          /\ input \in Inputs
          /\ seekable \in BOOLEAN
          /\ progs \in IF input = OtherCmdLine \o Gz(Unit(ArtOk(1)))
                       THEN BOOLEAN ELSE {FALSE}
          /\ spool = {}
       \/ /\ mode = "N"
          /\ input \in PlainBatches
          /\ seekable = TRUE
          /\ progs = FALSE
          /\ spool = {}
       \/ /\ mode = "U"
          /\ input = <<>>
          /\ seekable = TRUE
          /\ progs = FALSE
          /\ \E d \in SpoolDirs : spool = DirEntries(d)
    /\ pc = "open"
    /\ status = Running
    /\ fdkind = "file"
    /\ rest = input
    /\ gzip = 0
    /\ HadCount = FALSE
    /\ SawCunbatch = FALSE
    /\ count = 0
    /\ article = <<>>
    /\ caller = ""
    /\ ok = TRUE
    /\ wire = <<>>
    /\ outcomes = <<>>
    /\ tmp = {}
    /\ bad = {}
    /\ spawned = 0
    /\ reaped = 0
    /\ todo = {}
    /\ cur = 0
    /\ mark = [wire |-> 0, outcomes |-> 0]
    /\ faults = {}
    /\ lock = FALSE
    /\ waits = 0
    /\ other = 0
    /\ spoolfile = 0
    /\ maxforks \in IF mode = "" /\ input \in RetriedBatches THEN 0..MaxForks ELSE {0}
    /\ forks = [attempts |-> 0, sleeps |-> 0, ret |-> ""]

(***************************************************************************)
(* Leaving a function.                                                     *)
(***************************************************************************)
Min(a, b) == IF a < b THEN a ELSE b

\* exit(code)
Exit(code) == pc' = "exit" /\ status' = code % ExitModulus

\* UnpackOne returns b: to main() in the foreground, to Unspool() in a replay.
UnpackReturn(b) ==
    /\ ok' = b
    /\ pc' = IF mode = "U" THEN "wait" ELSE "unpacked"
    /\ status' = status

\* Process returns b.  ReadBytecount hands the value to UnpackOne, which goes
\* round its loop on TRUE and returns FALSE on FALSE; ReadRemainder hands it to
\* UnpackOne, which returns it.
ProcessReturn(b, why) ==
    /\ outcomes' = Append(outcomes, [id |-> ArticleId(CStr(article)), why |-> why, ret |-> b])
    /\ IF caller = "bytecount" /\ b
       THEN pc' = "unpack" /\ ok' = ok /\ status' = status
       ELSE UnpackReturn(b)

(***************************************************************************)
(* Spool(fd, mode): copy what fd still yields to a temporary dot file and  *)
(* rename it onto a fresh spool name; exit with the number of failures.    *)
(* readable: fd is a descriptor (not -1); data: what reading it to the end *)
(* yields.  At most one system call is made to fail.  A failing read fails *)
(* on the first block.  read() yields from one byte to a buffer full at a  *)
(* time and every block read is written: when write fails, it fails for    *)
(* any number of the blocks, from one to all of them, each failure adding  *)
(* one to status, and the content written is taken as empty.               *)
(***************************************************************************)
SpoolFaults == {"none", "mkstemp", "fchmod", "read", "write", "close", "mkstemp2", "rename"}

NewName == CHOOSE n \in 1..(Cardinality(spool) + 1) : \A e \in spool : e.name # n

\* exit(status) at the end of Spool, as if every spooling ended with status 0.
SpoolStatusAlwaysZero(nfail) == 0
\* exit(status) at the end of Spool: status counts the failures met.
SpoolStatus(nfail) == nfail

\* Spool without the test of the mode: -N spools as the foreground does.
SpoolInEveryMode(readable, data) ==
    \E f \in SpoolFaults :
         \E w \in IF f = "write" /\ readable THEN 1..Len(data)
                  ELSE IF f = "write" THEN {} ELSE {0} :
         LET readfail == ~readable \/ f = "read"
             written  == IF readfail \/ f = "write" THEN <<>> ELSE data
             nfail    == (IF readfail THEN 1 ELSE 0) + w
                           + (IF f \in {"close", "mkstemp2", "rename"} THEN 1 ELSE 0)
         IN  /\ faults' = faults \cup ({f} \ {"none"})
                                 \cup (IF readable THEN {} ELSE {"read"})
             /\ IF f \in {"mkstemp", "fchmod"}
                THEN /\ Exit(DieStatus)
                     /\ spool' = spool
                     /\ tmp' = IF f = "fchmod" THEN tmp \cup {[content |-> <<>>]} ELSE tmp
                ELSE /\ Exit(SpoolStatus(nfail))
                     /\ spool' = IF f = "mkstemp2" THEN spool
                                 ELSE spool \cup {[name |-> NewName,
                                                   content |-> IF f = "rename" THEN <<>>
                                                               ELSE written]}
                     /\ tmp' = IF f \in {"mkstemp2", "rename"}
                               THEN tmp \cup {[content |-> written]} ELSE tmp

Spool(readable, data) ==
    IF mode = "N"
    THEN /\ Exit(NoSpoolStatus)
         /\ UNCHANGED <<spool, tmp, faults>>
    ELSE \E f \in SpoolFaults :
         \E w \in IF f = "write" /\ readable THEN 1..Len(data)
                  ELSE IF f = "write" THEN {} ELSE {0} :
         LET readfail == ~readable \/ f = "read"
             written  == IF readfail \/ f = "write" THEN <<>> ELSE data
             nfail    == (IF readfail THEN 1 ELSE 0) + w
                           + (IF f \in {"close", "mkstemp2", "rename"} THEN 1 ELSE 0)
         IN  /\ faults' = faults \cup ({f} \ {"none"})
                                 \cup (IF readable THEN {} ELSE {"read"})
             /\ IF f \in {"mkstemp", "fchmod"}
                THEN /\ Exit(DieStatus)
                     /\ spool' = spool
                     /\ tmp' = IF f = "fchmod" THEN tmp \cup {[content |-> <<>>]} ELSE tmp
                ELSE /\ Exit(SpoolStatus(nfail))
                     /\ spool' = IF f = "mkstemp2" THEN spool
                                 ELSE spool \cup {[name |-> NewName,
                                                   content |-> IF f = "rename" THEN <<>>
                                                               ELSE written]}
                     /\ tmp' = IF f \in {"mkstemp2", "rename"}
                               THEN tmp \cup {[content |-> written]} ELSE tmp

(***************************************************************************)
(* main()                                                                  *)
(***************************************************************************)
\* OpenLink with a CantConnect() that spools in every mode.
OpenLinkAlwaysSpools ==
    /\ pc = "open"
    /\ \E connected \in BOOLEAN :
          IF connected
          THEN /\ pc' = IF mode = "U" THEN "readdir" ELSE "unpack"
               /\ todo' = IF mode = "U" THEN {e.name : e \in spool} ELSE todo
               /\ UNCHANGED <<status, spool, tmp, faults>>
          ELSE /\ todo' = todo
               /\ Spool(TRUE, rest)
    /\ UNCHANGED <<maxforks, forks, spoolfile, waits, other, lock, mode, progs, seekable, input, fdkind, rest, gzip, HadCount,
                   SawCunbatch, count, article, caller, ok, wire, outcomes, bad,
                   spawned, reaped, cur, mark>>

\* Open the link to the server; CantConnect() when that fails.
OpenLink ==
    /\ pc = "open"
    /\ \E connected \in BOOLEAN :
          IF connected
          THEN /\ pc' = IF mode = "U" THEN "readdir" ELSE "unpack"
               /\ todo' = IF mode = "U" THEN {e.name : e \in spool} ELSE todo
               /\ UNCHANGED <<status, spool, tmp, faults>>
          ELSE /\ todo' = todo
               /\ IF mode # "U"
                  THEN Spool(TRUE, rest)
                  ELSE Exit(1) /\ UNCHANGED <<spool, tmp, faults>>
    /\ UNCHANGED <<maxforks, forks, spoolfile, waits, other, lock, mode, progs, seekable, input, fdkind, rest, gzip, HadCount,
                   SawCunbatch, count, article, caller, ok, wire, outcomes, bad,
                   spawned, reaped, cur, mark>>

\* SpoolSource without the lseek: what the descriptor has still to yield.
SpoolSourceNoRewind == rest

\* UnpackOne failed: lseek(fd, 0, 0) and Spool(fd, mode).  The lseek moves a
\* seekable file back to its first byte and fails on a pipe and on -1.  rest
\* stays what it was when UnpackOne returned: the process exits here.
SpoolSource == IF fdkind = "file" /\ seekable THEN input ELSE rest

\* MainSpool of a main() that waits for its children before it spools.
MainSpoolReaps ==
    /\ pc = "unpacked" /\ mode # "U" /\ ~ok
    /\ reaped' = spawned
    /\ Spool(fdkind # "bad", SpoolSource)
    /\ UNCHANGED <<maxforks, forks, spoolfile, waits, other, lock, mode, progs, seekable, input, fdkind, rest, gzip, HadCount,
                   SawCunbatch, count, article, caller, ok, wire, outcomes, bad,
                   spawned, todo, cur, mark>>

MainSpool ==
    /\ pc = "unpacked" /\ mode # "U" /\ ~ok
    /\ Spool(fdkind # "bad", SpoolSource)
    /\ UNCHANGED <<maxforks, forks, spoolfile, waits, other, lock, mode, progs, seekable, input, fdkind, rest, gzip, HadCount,
                   SawCunbatch, count, article, caller, ok, wire, outcomes, bad,
                   spawned, reaped, todo, cur, mark>>

\* UnpackOne succeeded: close(fd), then WaitForChildren(count).
MainClose ==
    /\ pc = "unpacked" /\ mode # "U" /\ ok
    /\ pc' = "wait"
    /\ UNCHANGED <<maxforks, forks, spoolfile, waits, other, lock, mode, progs, seekable, input, status, fdkind, rest, gzip, HadCount,
                   SawCunbatch, count, article, caller, ok, wire, outcomes, spool, tmp,
                   bad, spawned, reaped, todo, cur, mark, faults>>

\* The option WaitForChildren passes to waitpid().
WNOHANG == "WNOHANG"
\* The option of a waitpid() that waits for a child to exit.
WaitOptionsBlocking == ""
WaitOptions == WNOHANG

\* What waitpid(-1, NULL, options) can do in a process with `children` children
\* not yet waited for: fail with ECHILD when there is none; else return the pid
\* of one that has exited, or, when none has exited, return 0 with WNOHANG and
\* not return without it.
waitpid(options, children) ==
    IF children = 0 THEN {"ECHILD"}
    ELSE {"pid"} \cup (IF options = WNOHANG THEN {"0"} ELSE {"blocks"})

\* WaitForChildren(count), one round of `while (--n >= 0)` at a time: a call of
\* waitpid(-1, NULL, WNOHANG), after which the loop goes on unless the call
\* failed; or the end of the loop after count calls.
WaitForChildren ==
    /\ pc = "wait"
    /\ LET return == IF mode = "U" THEN "terminal" ELSE "quit"
       IN  IF waits < count
           THEN \E r \in waitpid(WaitOptions, spawned - reaped) :
                  /\ waits' = waits + 1
                  /\ reaped' = IF r = "pid" THEN reaped + 1 ELSE reaped
                  /\ pc' = CASE r = "ECHILD" -> return
                              [] r = "blocks" -> "blocked"
                              [] OTHER -> "wait"
           ELSE /\ pc' = return
                /\ UNCHANGED <<waits, reaped>>
    /\ UNCHANGED <<maxforks, forks, spoolfile, other, lock, mode, progs, seekable, input, status, fdkind, rest, gzip, HadCount,
                   SawCunbatch, count, article, caller, ok, wire, outcomes, spool, tmp,
                   bad, spawned, todo, cur, mark, faults>>

\* "quit" to the server, then exit(0).
Quit ==
    /\ pc = "quit"
    /\ wire' = Append(wire, [op |-> "quit", arg |-> 0])
    /\ Exit(DeliveredStatus)
    /\ UNCHANGED <<maxforks, forks, spoolfile, waits, other, lock, mode, progs, seekable, input, fdkind, rest, gzip, HadCount,
                   SawCunbatch, count, article, caller, ok, outcomes, spool, tmp,
                   bad, spawned, reaped, todo, cur, mark, faults>>

(***************************************************************************)
(* UnpackOne: one action for each way round (or out of) its loop.          *)
(***************************************************************************)
B0 == rest[1]
B1 == rest[2]
\* gzip after the first byte was looked at: it is set and never cleared.
G == IF B0 = GZ_MAGIC1 THEN 1 ELSE gzip
FirstIsMagic == B0 = GZ_MAGIC1 \/ B0 = RNEWS_MAGIC1
IsCompressed == G = 1 /\ (B1 = GZ_MAGIC2 \/ B1 = Z_MAGIC2)
\* buff after ReadLine(&buff[2], sizeof buff - 3, *fdp)
CmdRead == ReadLine(SMBUF - 3, Drop(rest, 2))
Buff == <<B0, B1>> \o CmdRead.line
IsRnewsCmd == Take(Buff, 9) = RnewsPrefix
AtCommand ==
    /\ pc = "unpack" /\ Len(rest) >= 2 /\ FirstIsMagic /\ ~IsCompressed
    /\ B1 = RNEWS_MAGIC2

\* The lock type Unspool asks for.
INN_LOCK_READ == "read"

\* inn_lock_file(fd, type, FALSE), where `theirs` are the lock types other
\* processes hold on the file: a read lock is refused only by a write lock.
inn_lock_file(type, theirs) ==
    IF type = INN_LOCK_READ THEN "write" \notin theirs ELSE theirs = {}

\* The lock after close() of a descriptor other than lockfd.  Closing a
\* descriptor of a file other than the locked one changes nothing.  For a
\* descriptor of the locked file the outcome is the locking primitive's: a
\* POSIX record lock is dropped when the process closes any descriptor of the
\* file, a BSD flock() lock stays with lockfd.
AfterClose(kind) == IF kind = "file" /\ mode = "U" THEN {lock, FALSE} ELSE {lock}

\* The loop of StartChild with a test that gives up one failure later.
RECURSIVE ForkLoopOneMore(_, _, _)
ForkLoopOneMore(ceiling, i, fails) ==
    IF fails = 0
    THEN [attempts |-> i + 1, sleeps |-> i, ret |-> "pan[PIPE_READ]"]
    ELSE IF i = ceiling + 1
    THEN [attempts |-> i + 1, sleeps |-> i, ret |-> "-1"]
    ELSE ForkLoopOneMore(ceiling, i + 1, fails - 1)

\* for (i = 0; (pid = fork()) < 0; i++), from the value i on, when fork() fails
\* `fails` more times before it succeeds: a failed fork() with i at the ceiling
\* returns -1, any other failed fork() is followed by sleep(60) and i++.  The
\* result: the calls of fork() and of sleep() made, and what StartChild returns.
RECURSIVE ForkLoop(_, _, _)
ForkLoop(ceiling, i, fails) ==
    IF fails = 0
    THEN [attempts |-> i + 1, sleeps |-> i, ret |-> "pan[PIPE_READ]"]
    ELSE IF i = ceiling
    THEN [attempts |-> i + 1, sleeps |-> i, ret |-> "-1"]
    ELSE ForkLoop(ceiling, i + 1, fails - 1)

\* StartChild(fd, path, argv) with the child's standard input yielding `stdin`
\* and the child writing Unpacked(stdin): sysdie() when pipe() fails; the new
\* *fdp is the read end of the pipe, or -1 when fork() failed maxforks + 1
\* times.  fork() may go on failing longer than the loop goes on trying.
StartChild(stdin, sawcunbatch) ==
    \E piped \in BOOLEAN, fails \in 0..(maxforks + 2) :
       LET f == ForkLoop(maxforks, 0, fails)
       IN  IF ~piped
           THEN /\ Exit(DieStatus)
                /\ faults' = faults \cup {"pipe"}
                /\ UNCHANGED <<ok, fdkind, lock, rest, count, spawned, SawCunbatch, forks>>
           ELSE IF f.ret # "-1"
           THEN /\ forks' = f
                /\ fdkind' = "pipe"
                /\ lock' \in AfterClose(fdkind)
                /\ rest' = Gunzip(stdin)
                /\ count' = count + 1
                /\ spawned' = spawned + 1
                /\ SawCunbatch' = sawcunbatch
                /\ UNCHANGED <<pc, ok, status, faults>>
           ELSE /\ forks' = f
                /\ fdkind' = "bad"
                /\ faults' = faults \cup {"fork"}
                /\ UnpackReturn(FALSE)
                /\ UNCHANGED <<lock, rest, count, spawned, SawCunbatch>>

\* read() of the first byte returns 0: the loop ends, UnpackOne returns TRUE.
UnpackEof ==
    /\ pc = "unpack" /\ rest = <<>>
    /\ UnpackReturn(TRUE)
    /\ UNCHANGED <<maxforks, forks, spoolfile, waits, other, lock, mode, progs, seekable, input, fdkind, rest, gzip, HadCount,
                   SawCunbatch, count, article, caller, wire, outcomes, spool, tmp,
                   bad, spawned, reaped, todo, cur, mark, faults>>

\* ReadRemainder(fd, first, second) up to its call of Process: the stream it
\* reads is a dup() of fd, closed once the article is in memory.
ReadRemainder(first, second, s) ==
    /\ article' = RemainderBuffer(first, second, s)
    /\ lock' \in AfterClose(fdkind)
    /\ rest' = <<>>
    /\ caller' = "remainder"
    /\ pc' = "process"
    /\ UNCHANGED <<ok, status>>

\* UnpackNotBatch1 as if raw text were read as an article after a byte count too.
UnpackNotBatch1AfterCount ==
    /\ pc = "unpack" /\ rest # <<>> /\ ~FirstIsMagic
    /\ ReadRemainder(B0, NUL, Drop(rest, 1))
    /\ UNCHANGED <<maxforks, forks, spoolfile, waits, other, mode, progs, seekable, input, fdkind, gzip, HadCount,
                   SawCunbatch, count, wire, outcomes, spool, tmp,
                   bad, spawned, reaped, todo, cur, mark, faults>>

\* The first byte is neither 0x1f nor '#'.
UnpackNotBatch1 ==
    /\ pc = "unpack" /\ rest # <<>> /\ ~FirstIsMagic
    /\ IF HadCount
       THEN UnpackReturn(FALSE) /\ rest' = Drop(rest, 1) /\ UNCHANGED <<lock, article, caller>>
       ELSE ReadRemainder(B0, NUL, Drop(rest, 1))
    /\ UNCHANGED <<maxforks, forks, spoolfile, waits, other, mode, progs, seekable, input, fdkind, gzip, HadCount,
                   SawCunbatch, count, wire, outcomes, spool, tmp,
                   bad, spawned, reaped, todo, cur, mark, faults>>

\* UnpackOneByte as if the one byte were read on as a raw article.
UnpackOneByteRaw ==
    /\ pc = "unpack" /\ Len(rest) = 1 /\ FirstIsMagic
    /\ gzip' = G
    /\ ReadRemainder(B0, NUL, <<>>)
    /\ UNCHANGED <<maxforks, forks, spoolfile, waits, other, mode, progs, seekable, input, fdkind, HadCount,
                   SawCunbatch, count, wire, outcomes, spool, tmp,
                   bad, spawned, reaped, todo, cur, mark, faults>>

\* read() of the second byte returns 0: "A one-byte batch?"
UnpackOneByte ==
    /\ pc = "unpack" /\ Len(rest) = 1 /\ FirstIsMagic
    /\ gzip' = G
    /\ rest' = <<>>
    /\ UnpackReturn(FALSE)
    /\ UNCHANGED <<maxforks, forks, spoolfile, waits, other, lock, mode, progs, seekable, input, fdkind, HadCount,
                   SawCunbatch, count, article, caller, wire, outcomes, spool, tmp,
                   bad, spawned, reaped, todo, cur, mark, faults>>

\* 0x1f 0x8b or 0x1f 0x9d: lseek(*fdp, 0, 0), which moves a seekable file to its
\* first byte and fails on a pipe, then StartChild("gzip -d").
UnpackCompressed ==
    /\ pc = "unpack" /\ Len(rest) >= 2 /\ FirstIsMagic /\ IsCompressed
    /\ gzip' = G
    /\ StartChild(IF fdkind = "file" /\ seekable THEN input ELSE Drop(rest, 2), TRUE)
    /\ UNCHANGED <<maxforks, spoolfile, waits, other, mode, progs, seekable, input, HadCount, article, caller, wire,
                   outcomes, spool, tmp, bad, reaped, todo, cur, mark>>

\* The second byte is not '!'.
UnpackNotBatch2 ==
    /\ pc = "unpack" /\ Len(rest) >= 2 /\ FirstIsMagic /\ ~IsCompressed
    /\ B1 # RNEWS_MAGIC2
    /\ gzip' = G
    /\ IF HadCount
       THEN UnpackReturn(FALSE) /\ rest' = Drop(rest, 2) /\ UNCHANGED <<lock, article, caller>>
       ELSE ReadRemainder(B0, B1, Drop(rest, 2))
    /\ UNCHANGED <<maxforks, forks, spoolfile, waits, other, mode, progs, seekable, input, fdkind, HadCount,
                   SawCunbatch, count, wire, outcomes, spool, tmp,
                   bad, spawned, reaped, todo, cur, mark, faults>>

\* ReadLine meets the end of the stream before a newline: sysdie().
UnpackLineDie ==
    /\ AtCommand /\ CmdRead.res = "die"
    /\ gzip' = G
    /\ rest' = <<>>
    /\ Exit(DieStatus)
    /\ UNCHANGED <<maxforks, forks, spoolfile, waits, other, lock, mode, progs, seekable, input, fdkind, HadCount,
                   SawCunbatch, count, article, caller, ok, wire, outcomes, spool, tmp,
                   bad, spawned, reaped, todo, cur, mark, faults>>

\* ReadLine fills the buffer without meeting a newline.
UnpackLineTooLong ==
    /\ AtCommand /\ CmdRead.res = "toolong"
    /\ gzip' = G
    /\ rest' = Drop(rest, 2 + CmdRead.used)
    /\ UnpackReturn(FALSE)
    /\ UNCHANGED <<maxforks, forks, spoolfile, waits, other, lock, mode, progs, seekable, input, fdkind, HadCount,
                   SawCunbatch, count, article, caller, wire, outcomes, spool, tmp,
                   bad, spawned, reaped, todo, cur, mark, faults>>

\* artsize = atoi(&buff[9]), as if a count with a byte that is no digit were 0.
ArtsizeStrict(buff) ==
    IF \A i \in 10..Len(buff) : IsDigit(buff[i]) THEN Atoi(Drop(buff, 9)) ELSE 0
\* artsize = atoi(&buff[9])
Artsize(buff) == Atoi(Drop(buff, 9))

\* "#! rnews <artsize>": ReadBytecount(*fdp, artsize) up to its call of Process.
\* A short read makes ReadBytecount return TRUE without calling Process.
UnpackRnews ==
    /\ AtCommand /\ CmdRead.res = "ok" /\ IsRnewsCmd
    /\ gzip' = G
    /\ LET artsize == Artsize(Buff)
           s == Drop(rest, 2 + CmdRead.used)
       IN  IF artsize <= 0
           THEN /\ rest' = s
                /\ UnpackReturn(FALSE)
                /\ UNCHANGED <<HadCount, article, caller, outcomes>>
           ELSE /\ HadCount' = TRUE
                /\ IF BytecountShort(s, artsize)
                   THEN /\ rest' = <<>>
                        /\ outcomes' = Append(outcomes, [id |-> 0, why |-> "short", ret |-> TRUE])
                        /\ UNCHANGED <<pc, ok, status, article, caller>>
                   ELSE /\ rest' = Drop(s, artsize)
                        /\ article' = BytecountArticle(s, artsize)
                        /\ caller' = "bytecount"
                        /\ pc' = "process"
                        /\ UNCHANGED <<ok, status, outcomes>>
    /\ UNCHANGED <<maxforks, forks, spoolfile, waits, other, lock, mode, progs, seekable, input, fdkind,
                   SawCunbatch, count, wire, spool, tmp,
                   bad, spawned, reaped, todo, cur, mark, faults>>

\* A command other than rnews after a byte count was seen.
UnpackAfterCount ==
    /\ AtCommand /\ CmdRead.res = "ok" /\ ~IsRnewsCmd /\ HadCount
    /\ gzip' = G
    /\ rest' = Drop(rest, 2 + CmdRead.used)
    /\ UnpackReturn(FALSE)
    /\ UNCHANGED <<maxforks, forks, spoolfile, waits, other, lock, mode, progs, seekable, input, fdkind, HadCount,
                   SawCunbatch, count, article, caller, wire, outcomes, spool, tmp,
                   bad, spawned, reaped, todo, cur, mark, faults>>

\* "#! cunbatch" as if a second decompression were started like the first.
UnpackCunbatchNests ==
    /\ AtCommand /\ CmdRead.res = "ok" /\ ~IsRnewsCmd /\ ~HadCount
    /\ Buff = CunbatchCmd
    /\ gzip' = G
    /\ StartChild(Drop(rest, 2 + CmdRead.used), TRUE)
    /\ UNCHANGED <<maxforks, spoolfile, waits, other, mode, progs, seekable, input, HadCount, article, caller, wire,
                   outcomes, spool, tmp, bad, reaped, todo, cur, mark>>

\* "#! cunbatch": StartChild("gzip -d") over the rest of the stream, unless a
\* decompression was already started for this batch.
UnpackCunbatch ==
    /\ AtCommand /\ CmdRead.res = "ok" /\ ~IsRnewsCmd /\ ~HadCount
    /\ Buff = CunbatchCmd
    /\ gzip' = G
    /\ IF SawCunbatch
       THEN /\ rest' = Drop(rest, 2 + CmdRead.used)
            /\ UnpackReturn(FALSE)
            /\ UNCHANGED <<lock, fdkind, count, spawned, SawCunbatch, faults, forks>>
       ELSE StartChild(Drop(rest, 2 + CmdRead.used), TRUE)
    /\ UNCHANGED <<maxforks, spoolfile, waits, other, mode, progs, seekable, input, HadCount, article, caller, wire,
                   outcomes, spool, tmp, bad, reaped, todo, cur, mark>>

\* Any other command: with DO_RNEWSPROGS the program of that name is started
\* over the rest of the stream, without it the batch fails.
UnpackOtherCommand ==
    /\ AtCommand /\ CmdRead.res = "ok" /\ ~IsRnewsCmd /\ ~HadCount
    /\ Buff # CunbatchCmd
    /\ gzip' = G
    /\ IF progs
       THEN StartChild(Drop(rest, 2 + CmdRead.used), SawCunbatch)
       ELSE /\ rest' = Drop(rest, 2 + CmdRead.used)
            /\ UnpackReturn(FALSE)
            /\ UNCHANGED <<lock, fdkind, count, spawned, SawCunbatch, faults, forks>>
    /\ UNCHANGED <<maxforks, spoolfile, waits, other, mode, progs, seekable, input, HadCount, article, caller, wire,
                   outcomes, spool, tmp, bad, reaped, todo, cur, mark>>

(***************************************************************************)
(* Process(article): the offer protocol for one article.                   *)
(***************************************************************************)
\* What fgets(buff, sizeof buff, FromServer) can yield.
Replies == {ReadFailed, NonNumeric, NNTP_SENDIT_VAL, NNTP_HAVEIT_VAL,
            NNTP_RESENDIT_VAL, NNTP_REJECTIT_VAL, NNTP_TOOKIT_VAL, OtherCode}

\* IhaveVerdict with "resend later" treated like an unknown reply: the batch goes on.
IhaveVerdictResendContinues(r) ==
    IF r = ReadFailed THEN [go |-> FALSE, ret |-> FALSE, why |-> "read1"]
    ELSE IF r = NonNumeric THEN [go |-> FALSE, ret |-> FALSE, why |-> "nonnumeric1"]
    ELSE CASE r = NNTP_SENDIT_VAL   -> [go |-> TRUE,  ret |-> TRUE,  why |-> "sendit"]
           [] r = NNTP_HAVEIT_VAL   -> [go |-> FALSE, ret |-> TRUE,  why |-> "duplicate"]
           [] OTHER                 -> [go |-> FALSE, ret |-> TRUE,  why |-> "unknown1"]

\* IhaveVerdict with the article sent also to a peer that already has it.
IhaveVerdictDuplicateSends(r) ==
    IF r = ReadFailed THEN [go |-> FALSE, ret |-> FALSE, why |-> "read1"]
    ELSE IF r = NonNumeric THEN [go |-> FALSE, ret |-> FALSE, why |-> "nonnumeric1"]
    ELSE CASE r = NNTP_RESENDIT_VAL -> [go |-> FALSE, ret |-> FALSE, why |-> "resend1"]
           [] r = NNTP_SENDIT_VAL   -> [go |-> TRUE,  ret |-> TRUE,  why |-> "sendit"]
           [] r = NNTP_HAVEIT_VAL   -> [go |-> TRUE,  ret |-> TRUE,  why |-> "duplicate"]
           [] OTHER                 -> [go |-> FALSE, ret |-> TRUE,  why |-> "unknown1"]

\* IhaveVerdict with a failed read of the reply taken for an unknown reply.
IhaveVerdictReadFailureContinues(r) ==
    IF r = NonNumeric THEN [go |-> FALSE, ret |-> FALSE, why |-> "nonnumeric1"]
    ELSE CASE r = NNTP_RESENDIT_VAL -> [go |-> FALSE, ret |-> FALSE, why |-> "resend1"]
           [] r = NNTP_SENDIT_VAL   -> [go |-> TRUE,  ret |-> TRUE,  why |-> "sendit"]
           [] r = NNTP_HAVEIT_VAL   -> [go |-> FALSE, ret |-> TRUE,  why |-> "duplicate"]
           [] OTHER                 -> [go |-> FALSE, ret |-> TRUE,  why |-> "unknown1"]

\* IhaveVerdict with "send it" taken for the end of the exchange: no article.
IhaveVerdictSendItSkipsArticle(r) ==
    IF r = ReadFailed THEN [go |-> FALSE, ret |-> FALSE, why |-> "read1"]
    ELSE IF r = NonNumeric THEN [go |-> FALSE, ret |-> FALSE, why |-> "nonnumeric1"]
    ELSE CASE r = NNTP_RESENDIT_VAL -> [go |-> FALSE, ret |-> FALSE, why |-> "resend1"]
           [] r = NNTP_SENDIT_VAL   -> [go |-> FALSE, ret |-> TRUE,  why |-> "sendit"]
           [] r = NNTP_HAVEIT_VAL   -> [go |-> FALSE, ret |-> TRUE,  why |-> "duplicate"]
           [] OTHER                 -> [go |-> FALSE, ret |-> TRUE,  why |-> "unknown1"]

\* IhaveVerdict with the article sent after an unknown reply to the offer.
IhaveVerdictUnknownSends(r) ==
    IF r = ReadFailed THEN [go |-> FALSE, ret |-> FALSE, why |-> "read1"]
    ELSE IF r = NonNumeric THEN [go |-> FALSE, ret |-> FALSE, why |-> "nonnumeric1"]
    ELSE CASE r = NNTP_RESENDIT_VAL -> [go |-> FALSE, ret |-> FALSE, why |-> "resend1"]
           [] r = NNTP_SENDIT_VAL   -> [go |-> TRUE,  ret |-> TRUE,  why |-> "sendit"]
           [] r = NNTP_HAVEIT_VAL   -> [go |-> FALSE, ret |-> TRUE,  why |-> "duplicate"]
           [] OTHER                 -> [go |-> TRUE,  ret |-> TRUE,  why |-> "unknown1"]

\* The reply to "ihave": go on to send the article (go), or return ret.
IhaveVerdict(r) ==
    IF r = ReadFailed THEN [go |-> FALSE, ret |-> FALSE, why |-> "read1"]
    ELSE IF r = NonNumeric THEN [go |-> FALSE, ret |-> FALSE, why |-> "nonnumeric1"]
    ELSE CASE r = NNTP_RESENDIT_VAL -> [go |-> FALSE, ret |-> FALSE, why |-> "resend1"]
           [] r = NNTP_SENDIT_VAL   -> [go |-> TRUE,  ret |-> TRUE,  why |-> "sendit"]
           [] r = NNTP_HAVEIT_VAL   -> [go |-> FALSE, ret |-> TRUE,  why |-> "duplicate"]
           [] OTHER                 -> [go |-> FALSE, ret |-> TRUE,  why |-> "unknown1"]

\* ArticleVerdict with an unknown reply logged and the batch going on.
ArticleVerdictUnknownContinues(r) ==
    IF r = ReadFailed THEN [ret |-> FALSE, why |-> "read2"]
    ELSE IF r = NonNumeric THEN [ret |-> FALSE, why |-> "nonnumeric2"]
    ELSE CASE r = NNTP_RESENDIT_VAL -> [ret |-> FALSE, why |-> "resend2"]
           [] r = NNTP_TOOKIT_VAL   -> [ret |-> TRUE,  why |-> "accepted"]
           [] r = NNTP_REJECTIT_VAL -> [ret |-> TRUE,  why |-> "rejected"]
           [] OTHER                 -> [ret |-> TRUE,  why |-> "unknown2"]

\* ArticleVerdict with a rejection falling through to "resend later".
ArticleVerdictRejectAborts(r) ==
    IF r = ReadFailed THEN [ret |-> FALSE, why |-> "read2"]
    ELSE IF r = NonNumeric THEN [ret |-> FALSE, why |-> "nonnumeric2"]
    ELSE CASE r = NNTP_RESENDIT_VAL -> [ret |-> FALSE, why |-> "resend2"]
           [] r = NNTP_TOOKIT_VAL   -> [ret |-> TRUE,  why |-> "accepted"]
           [] r = NNTP_REJECTIT_VAL -> [ret |-> FALSE, why |-> "rejected"]
           [] OTHER                 -> [ret |-> FALSE, why |-> "unknown2"]

\* ArticleVerdict with "took it" missing from the switch: an unknown reply.
ArticleVerdictTookItUnknown(r) ==
    IF r = ReadFailed THEN [ret |-> FALSE, why |-> "read2"]
    ELSE IF r = NonNumeric THEN [ret |-> FALSE, why |-> "nonnumeric2"]
    ELSE CASE r = NNTP_RESENDIT_VAL -> [ret |-> FALSE, why |-> "resend2"]
           [] r = NNTP_REJECTIT_VAL -> [ret |-> TRUE,  why |-> "rejected"]
           [] OTHER                 -> [ret |-> FALSE, why |-> "unknown2"]

\* The reply to the article: what Process returns.
ArticleVerdict(r) ==
    IF r = ReadFailed THEN [ret |-> FALSE, why |-> "read2"]
    ELSE IF r = NonNumeric THEN [ret |-> FALSE, why |-> "nonnumeric2"]
    ELSE CASE r = NNTP_RESENDIT_VAL -> [ret |-> FALSE, why |-> "resend2"]
           [] r = NNTP_TOOKIT_VAL   -> [ret |-> TRUE,  why |-> "accepted"]
           [] r = NNTP_REJECTIT_VAL -> [ret |-> TRUE,  why |-> "rejected"]
           [] OTHER                 -> [ret |-> FALSE, why |-> "unknown2"]

\* MissingHeaderReturn of a Process that goes on to the next article.
MissingHeaderContinues == TRUE

\* What Process returns for an article that lacks a required header, and for
\* one whose Message-ID header has no newline, after Reject().
MissingHeaderReturn == FALSE
\* UnterminatedReturn of a Process that goes on to the next article.
UnterminatedContinues == TRUE
UnterminatedReturn == FALSE

\* The article as Process reads it: a C string.
A == CStr(article)

\* *article == '\0'
ProcessEmpty ==
    /\ pc = "process" /\ A = <<>>
    /\ ProcessReturn(TRUE, "empty")
    /\ UNCHANGED <<maxforks, forks, spoolfile, waits, other, lock, mode, progs, seekable, input, fdkind, rest, gzip, HadCount,
                   SawCunbatch, count, article, caller, wire, spool, tmp,
                   bad, spawned, reaped, todo, cur, mark, faults>>

ProcessMissing ==
    /\ pc = "process" /\ A # <<>> /\ FirstMissing(A, 1) # ""
    /\ ProcessReturn(MissingHeaderReturn, "missing")
    /\ UNCHANGED <<maxforks, forks, spoolfile, waits, other, lock, mode, progs, seekable, input, fdkind, rest, gzip, HadCount,
                   SawCunbatch, count, article, caller, wire, spool, tmp,
                   bad, spawned, reaped, todo, cur, mark, faults>>

ProcessUnterminated ==
    /\ pc = "process" /\ A # <<>> /\ FirstMissing(A, 1) = ""
    /\ ~MessageIdTerminated(A)
    /\ ProcessReturn(UnterminatedReturn, "unterminated")
    /\ UNCHANGED <<maxforks, forks, spoolfile, waits, other, lock, mode, progs, seekable, input, fdkind, rest, gzip, HadCount,
                   SawCunbatch, count, article, caller, wire, spool, tmp,
                   bad, spawned, reaped, todo, cur, mark, faults>>

\* AfterOffer of a Process that does not read the reply to its offer.
AfterOfferNoReply == "unpack"

\* Where Process goes once the offer is written: to the fgets() of the reply.
AfterOffer == "ihave"

\* "ihave <msgid>" is written and flushed.
ProcessIhave ==
    /\ pc = "process" /\ A # <<>> /\ FirstMissing(A, 1) = ""
    /\ MessageIdTerminated(A)
    /\ wire' = Append(wire, [op |-> "ihave", arg |-> MessageIdOf(A)])
    /\ pc' = AfterOffer
    /\ UNCHANGED <<maxforks, forks, spoolfile, waits, other, lock, mode, progs, seekable, input, status, fdkind, rest, gzip, HadCount,
                   SawCunbatch, count, article, caller, ok, outcomes, spool, tmp,
                   bad, spawned, reaped, todo, cur, mark, faults>>

\* The reply to "ihave" is read; on "send it" NNTPsendarticle writes the
\* article, which may fail.
ProcessIhaveReply ==
    /\ pc = "ihave"
    /\ \E r \in Replies :
         LET v == IhaveVerdict(r)
             w == Append(wire, [op |-> "reply", arg |-> r])
         IN  IF v.go
             THEN \E sent \in BOOLEAN :
                    IF sent
                    THEN /\ wire' = Append(w, [op |-> "article", arg |-> MessageIdOf(A)])
                         /\ pc' = "sent"
                         /\ UNCHANGED <<ok, status, outcomes, faults>>
                    ELSE /\ wire' = w
                         /\ faults' = faults \cup {"send"}
                         /\ ProcessReturn(FALSE, "sendfail")
             ELSE /\ wire' = w
                  /\ faults' = faults
                  /\ ProcessReturn(v.ret, v.why)
    /\ UNCHANGED <<maxforks, forks, spoolfile, waits, other, lock, mode, progs, seekable, input, fdkind, rest, gzip, HadCount,
                   SawCunbatch, count, article, caller, spool, tmp,
                   bad, spawned, reaped, todo, cur, mark>>

\* The reply to the article is read.
ProcessArticleReply ==
    /\ pc = "sent"
    /\ \E r \in Replies :
         /\ wire' = Append(wire, [op |-> "reply", arg |-> r])
         /\ ProcessReturn(ArticleVerdict(r).ret, ArticleVerdict(r).why)
    /\ UNCHANGED <<maxforks, forks, spoolfile, waits, other, lock, mode, progs, seekable, input, fdkind, rest, gzip, HadCount,
                   SawCunbatch, count, article, caller, spool, tmp,
                   bad, spawned, reaped, todo, cur, mark, faults>>

(***************************************************************************)
(* Unspool(): the replay pass over the spool directory.                    *)
(***************************************************************************)
\* The locks processes other than this one hold on spool entry n.
Theirs(n) == IF other = n THEN {INN_LOCK_READ} ELSE {}

\* readdir() returns an entry: open it twice, lock the second descriptor and
\* call UnpackOne on the first.  An entry that is gone, or whose lock is
\* refused, is skipped.
UnspoolNext ==
    /\ pc = "readdir" /\ todo # {}
    /\ \E n \in todo :
         /\ todo' = todo \ {n}
         /\ IF (\E e \in spool : e.name = n) /\ inn_lock_file(INN_LOCK_READ, Theirs(n))
            THEN LET e == CHOOSE x \in spool : x.name = n
                 IN  /\ cur' = n
                     /\ lock' = TRUE
                     /\ waits' = 0
                     /\ mark' = [wire |-> Len(wire), outcomes |-> Len(outcomes)]
                     /\ input' = e.content
                     /\ rest' = e.content
                     /\ fdkind' = "file"
                     /\ gzip' = 0
                     /\ HadCount' = FALSE
                     /\ SawCunbatch' = FALSE
                     /\ count' = 0
                     /\ pc' = "unpack"
            ELSE UNCHANGED <<cur, lock, waits, mark, input, rest, fdkind, gzip, HadCount,
                             SawCunbatch, count, pc>>
    /\ UNCHANGED <<maxforks, forks, spoolfile, other, mode, progs, seekable, status, article, caller, ok, wire, outcomes,
                   spool, tmp, bad, spawned, reaped, faults>>

\* readdir() returns NULL: closedir(), back to main().
UnspoolEnd ==
    /\ pc = "readdir" /\ todo = {}
    /\ pc' = "quit"
    /\ UNCHANGED <<maxforks, forks, spoolfile, waits, other, lock, mode, progs, seekable, input, status, fdkind, rest, gzip, HadCount,
                   SawCunbatch, count, article, caller, ok, wire, outcomes, spool, tmp,
                   bad, spawned, reaped, todo, cur, mark, faults>>

\* Where Unspool goes after a quarantine, as if it ended the pass there.
AfterQuarantineStops == "quit"
\* Where Unspool goes after a quarantine: `continue`, on to the next readdir().
AfterQuarantine == "readdir"

\* What a failure of mkstemp() or rename() leads to, as if it were only logged.
QuarantineFailureWarns == "warn"
\* What a failure of mkstemp() or rename() leads to: sysdie().
QuarantineFailure == "die"

\* After UnpackOne and WaitForChildren: rename the file into PathBadNews when
\* UnpackOne failed (sysdie() when mkstemp or rename fails), unlink it when
\* UnpackOne succeeded (a warning when unlink fails), then close both
\* descriptors.  rename() and unlink() fail on an entry that is gone.
UnspoolTerminal ==
    /\ pc = "terminal"
    /\ LET here == {x \in spool : x.name = cur}
       IN  IF ~ok
           THEN \E f \in {"none", "mkstemp", "rename"} :
                  /\ here = {} => f # "none"
                  /\ faults' = faults \cup ({f} \ {"none"})
                  /\ IF f = "none"
                     THEN /\ spool' = spool \ here
                          /\ bad' = bad \cup here
                          /\ pc' = AfterQuarantine
                          /\ lock' = FALSE
                          /\ status' = status
                     ELSE IF QuarantineFailure = "die"
                     THEN /\ Exit(DieStatus)
                          /\ UNCHANGED <<spool, bad, lock>>
                     ELSE /\ pc' = "readdir"
                          /\ lock' = FALSE
                          /\ UNCHANGED <<status, spool, bad>>
           ELSE \E f \in {"none", "unlink"} :
                  /\ here = {} => f # "none"
                  /\ faults' = faults \cup ({f} \ {"none"})
                  /\ spool' = IF f = "none" THEN spool \ here ELSE spool
                  /\ pc' = "readdir"
                  /\ lock' = FALSE
                  /\ UNCHANGED <<status, bad>>
    /\ UNCHANGED <<maxforks, forks, spoolfile, waits, other, mode, progs, seekable, input, fdkind, rest, gzip, HadCount,
                   SawCunbatch, count, article, caller, ok, wire, outcomes, tmp,
                   spawned, reaped, todo, cur, mark>>

(***************************************************************************)
(* The specification.                                                      *)
(***************************************************************************)
Next ==
    \/ OpenLink
    \/ MainSpool
    \/ MainClose
    \/ WaitForChildren
    \/ Quit
    \/ UnpackEof
    \/ UnpackNotBatch1
    \/ UnpackOneByte
    \/ UnpackCompressed
    \/ UnpackNotBatch2
    \/ UnpackLineDie
    \/ UnpackLineTooLong
    \/ UnpackRnews
    \/ UnpackAfterCount
    \/ UnpackCunbatch
    \/ UnpackOtherCommand
    \/ ProcessEmpty
    \/ ProcessMissing
    \/ ProcessUnterminated
    \/ ProcessIhave
    \/ ProcessIhaveReply
    \/ ProcessArticleReply
    \/ UnspoolNext
    \/ UnspoolEnd
    \/ UnspoolTerminal

Spec == Init /\ [][Next]_vars

\* The process is scheduled: a WaitForChildren loop that can make a step makes it.
SpecFair == Spec /\ WF_vars(WaitForChildren)

(***************************************************************************)
(* Two replay passes over one spool directory.  The second pass is a       *)
(* process of its own running the same Unspool(); of it the model keeps    *)
(* the one entry it has locked and is processing.                          *)
(***************************************************************************)
\* The second pass opens an entry and asks for its lock, as UnspoolNext does;
\* the lock this pass holds on the entry is among the locks it meets.
OtherPassOpens ==
    /\ mode = "U" /\ ~(pc = "exit") /\ other = 0
    /\ \E e \in spool :
         /\ inn_lock_file(INN_LOCK_READ,
                          IF lock /\ cur = e.name THEN {INN_LOCK_READ} ELSE {})
         /\ other' = e.name
    /\ UNCHANGED <<maxforks, forks, spoolfile, waits, lock, mode, progs, seekable, input, pc, status, fdkind, rest, gzip,
                   HadCount, SawCunbatch, count, article, caller, ok, wire, outcomes,
                   spool, tmp, bad, spawned, reaped, todo, cur, mark, faults>>

\* The second pass ends its entry as UnspoolTerminal does: quarantined when its
\* UnpackOne failed, unlinked when it succeeded, left alone when the entry is
\* gone or the system call fails.
OtherPassEnds ==
    /\ mode = "U" /\ other > 0
    /\ other' = -1
    /\ LET here == {x \in spool : x.name = other}
       IN  \E otherok \in BOOLEAN, failed \in BOOLEAN :
             /\ here = {} => failed
             /\ spool' = IF failed THEN spool ELSE spool \ here
             /\ bad' = IF failed \/ otherok THEN bad ELSE bad \cup here
    /\ UNCHANGED <<maxforks, forks, spoolfile, waits, lock, mode, progs, seekable, input, pc, status, fdkind, rest, gzip,
                   HadCount, SawCunbatch, count, article, caller, ok, wire, outcomes,
                   tmp, spawned, reaped, todo, cur, mark, faults>>

InitTwoPasses == Init /\ mode = "U"

NextTwoPasses ==
    \/ OpenLink
    \/ WaitForChildren
    \/ Quit
    \/ UnpackEof
    \/ UnpackNotBatch1
    \/ UnpackOneByte
    \/ UnpackCompressed
    \/ UnpackNotBatch2
    \/ UnpackLineDie
    \/ UnpackLineTooLong
    \/ UnpackRnews
    \/ UnpackAfterCount
    \/ UnpackCunbatch
    \/ UnpackOtherCommand
    \/ ProcessEmpty
    \/ ProcessMissing
    \/ ProcessUnterminated
    \/ ProcessIhave
    \/ ProcessIhaveReply
    \/ ProcessArticleReply
    \/ UnspoolNext
    \/ UnspoolEnd
    \/ UnspoolTerminal
    \/ OtherPassOpens
    \/ OtherPassEnds

SpecTwoPasses == InitTwoPasses /\ [][NextTwoPasses]_vars

(***************************************************************************)
(* A replay pass and a foreground rnews that spools into the directory the *)
(* pass is reading.  Of the foreground process the model keeps the end of  *)
(* its Spool(): the temporary dot file is written, then the final name is  *)
(* created and the temporary file renamed onto it.                         *)
(***************************************************************************)
\* The batch the foreground process spools, and the name mkstemp() gives it:
\* an article and a name no entry of the directory has.
SpoolerBatch == Unit(ArtOk(MaxArts + 1))
SpoolerName == MaxSpool + 1

\* The foreground process has written its temporary file and closed it;
\* mkstemp(spoolfile) creates the final name as an empty regular file.  Whether
\* a readdir() of a directory opened before returns the new name is
\* unspecified.
SpoolCreates ==
    /\ mode = "U" /\ pc # "exit" /\ spoolfile = 0
    /\ spoolfile' = SpoolerName
    /\ tmp' = tmp \cup {[content |-> SpoolerBatch]}
    /\ spool' = spool \cup {[name |-> SpoolerName, content |-> <<>>]}
    /\ \E seen \in BOOLEAN :
         todo' = IF seen /\ pc # "open" THEN todo \cup {SpoolerName} ELSE todo
    /\ UNCHANGED <<maxforks, forks, waits, other, lock, mode, progs, seekable, input, pc, status, fdkind,
                   rest, gzip, HadCount, SawCunbatch, count, article, caller, ok, wire,
                   outcomes, bad, spawned, reaped, cur, mark, faults>>

\* rename(tmpspool, spoolfile): the name now denotes the file with the batch,
\* whether or not the empty file is still there; a process that has the empty
\* file open keeps reading the empty file.
SpoolRenames ==
    /\ mode = "U" /\ spoolfile > 0
    /\ spoolfile' = -1
    /\ tmp' = tmp \ {[content |-> SpoolerBatch]}
    /\ spool' = {e \in spool : e.name # spoolfile}
                    \cup {[name |-> spoolfile, content |-> SpoolerBatch]}
    /\ UNCHANGED <<maxforks, forks, waits, other, lock, mode, progs, seekable, input, pc, status, fdkind,
                   rest, gzip, HadCount, SawCunbatch, count, article, caller, ok, wire,
                   outcomes, bad, spawned, reaped, todo, cur, mark, faults>>

InitSpooling == Init /\ mode = "U"

NextSpooling ==
    \/ OpenLink
    \/ WaitForChildren
    \/ Quit
    \/ UnpackEof
    \/ UnpackNotBatch1
    \/ UnpackOneByte
    \/ UnpackCompressed
    \/ UnpackNotBatch2
    \/ UnpackLineDie
    \/ UnpackLineTooLong
    \/ UnpackRnews
    \/ UnpackAfterCount
    \/ UnpackCunbatch
    \/ UnpackOtherCommand
    \/ ProcessEmpty
    \/ ProcessMissing
    \/ ProcessUnterminated
    \/ ProcessIhave
    \/ ProcessIhaveReply
    \/ ProcessArticleReply
    \/ UnspoolNext
    \/ UnspoolEnd
    \/ UnspoolTerminal
    \/ SpoolCreates
    \/ SpoolRenames

SpecSpooling == InitSpooling /\ [][NextSpooling]_vars

(***************************************************************************)
(* The claims.                                                             *)
(***************************************************************************)
Last(s) == s[Len(s)]
IsReply(e, r) == e.op = "reply" /\ e.arg = r
Exited == pc = "exit"
\* content holds article k, plain or under one or two layers of compression.
HoldsArticle(content, k) ==
    \E i \in 1..Len(content) :
       content[i] \in {MsgIdTok(k), MsgIdTok(k) + ZBase, MsgIdTok(k) + ZBase + ZBase}

\* C1, as stated: in any invocation, foreground or replay, once the peer has
\* answered 436 to an offer or to an article, no "ihave" is written any more.
C1_NoOfferAfterResend ==
    \A i, j \in 1..Len(wire) :
       (i < j /\ IsReply(wire[i], NNTP_RESENDIT_VAL)) => wire[j].op # "ihave"

\* C1, amended: within one batch (the input of a foreground invocation, one
\* spool file of a replay pass), once the peer has answered 436 to an offer or
\* to an article, neither an "ihave" nor an article is written any more for
\* that batch; a foreground invocation has one batch only.
C1_NoOfferAfterResendInBatch ==
    /\ mode # "U" => mark.wire = 0
    /\ \A i, j \in 1..Len(wire) :
          (mark.wire < i /\ i < j /\ IsReply(wire[i], NNTP_RESENDIT_VAL))
             => wire[j].op \notin {"ihave", "article"}

\* A foreground invocation has exited after a 436 with articles left unread.
C1_Witness ==
    /\ Exited /\ mode = "" /\ rest # <<>> /\ fdkind = "file"
    /\ \E i \in 1..Len(wire) : IsReply(wire[i], NNTP_RESENDIT_VAL)

\* The foreground invocation has left through Spool after the peer's 436, and
\* no system call of Spool has failed.
SpooledAfterResend ==
    /\ Exited /\ mode = "" /\ ~ok /\ faults = {}
    /\ Len(wire) >= 2 /\ IsReply(Last(wire), NNTP_RESENDIT_VAL)

\* The units k+1..n of a batch of n valid articles.
UnitsAfter(k, n) == Concat([i \in 1..(n - k) |-> Unit(ArtOk(k + i))])

\* C2, as stated: the spool entry of a foreground invocation aborted by a 436
\* holds exactly the bytes of the original input that were not yet read.
C2_SpoolIsUnreadSuffix ==
    (SpooledAfterResend /\ fdkind = "file")
        => spool = {[name |-> 1, content |-> rest]}

\* C2, amended: the spool entry of a foreground invocation aborted by a 436
\* holds the whole original input when the input is a seekable file read
\* directly (the lseek of main() moves it back to its first byte), the unread
\* suffix when the input cannot seek, and what the child has still to deliver
\* when a child was spliced into the stream.  For a batch of n valid articles
\* aborted on article k: all n articles from a file, articles k+1..n from a pipe.
C2_SpoolIsWholeFileOrUnreadRest ==
    SpooledAfterResend =>
        /\ Cardinality(spool) = 1
        /\ tmp = {}
        /\ \A e \in spool :
              /\ (fdkind = "file" /\ seekable) => e.content = input
              /\ (fdkind = "file" /\ ~seekable) => e.content = rest
              /\ fdkind = "pipe" => e.content = rest
              /\ \A n \in 1..MaxArts :
                    (input = Batch(n, 0) /\ fdkind = "file")
                        => e.content = IF seekable THEN Batch(n, 0)
                                       ELSE UnitsAfter(wire[Len(wire) - 1].arg, n)

\* A batch of MaxArts articles in a seekable file was aborted by a 436 to the
\* offer of article 1, articles 2..MaxArts being unread, and the spool entry
\* holds all the articles.
C2_Witness ==
    /\ SpooledAfterResend /\ seekable /\ fdkind = "file"
    /\ input = Batch(MaxArts, 0)
    /\ wire = <<[op |-> "ihave", arg |-> 1], [op |-> "reply", arg |-> NNTP_RESENDIT_VAL]>>
    /\ rest = UnitsAfter(1, MaxArts)
    /\ spool = {[name |-> 1, content |-> Batch(MaxArts, 0)]}

\* c is what is left of s after some first bytes of it.
IsSuffix(c, s) == Len(c) <= Len(s) /\ c = Drop(s, Len(s) - Len(c))

\* C3, as stated: after a foreground batch was aborted with one or more
\* children spliced into the stream, every spool entry holds raw bytes of the
\* original input (what is left of it), never output of a child.
C3_SpoolHoldsRawInput ==
    (Exited /\ mode = "" /\ ~ok /\ spawned > 0 /\ faults = {})
        => \A e \in spool : IsSuffix(e.content, input)

\* The articles, by the number of their Message-ID, with a Message-ID line in s.
ArticlesOf(s) == {k \in 1..MaxArts : HoldsArticle(s, k)}

\* Article k came to an end: the peer took it, has it or rejected it, or
\* Process rejected it with Reject().
Decided(k) ==
    \E i \in 1..Len(outcomes) :
       /\ outcomes[i].id = k
       /\ outcomes[i].why \in {"accepted", "duplicate", "rejected", "unknown1",
                               "missing", "unterminated"}

\* C4, as stated: when a foreground invocation that may spool exits with
\* status 0, every article of the input was decided or is in a spool entry.
C4_NoArticleDropped ==
    (Exited /\ mode = "" /\ status = 0)
        => \A k \in ArticlesOf(input) :
              Decided(k) \/ \E e \in spool : HoldsArticle(e.content, k)

(***************************************************************************)
(* What follows a return of Process, in the batch at hand.                 *)
(***************************************************************************)
\* Process has returned from the exchange that ended with the peer's reply r
\* to the offer (stage "ihave") or to the article (stage "article"), and
\* nothing was said on the link since.
Returned(stage, r) ==
    /\ Len(wire) >= mark.wire + 2
    /\ IsReply(Last(wire), r)
    /\ wire[Len(wire) - 1].op = stage
    /\ Len(outcomes) > mark.outcomes
    /\ Last(outcomes).id = wire[Len(wire) - 1].arg

\* The last call of Process in this batch found a required header missing.
ReturnedMissing ==
    /\ Len(outcomes) > mark.outcomes
    /\ Last(outcomes).why = "missing"
    /\ (wire # <<>> /\ Last(wire).op = "quit") => Len(wire) = mark.wire + 1

\* The name of the spool file being replayed is now in PathBadNews.
Quarantined ==
    /\ \E e \in bad : e.name = cur /\ e.content = input
    /\ \A e \in spool : e.name # cur

\* Process returned TRUE and the batch goes on.  For a batch of byte-counted
\* articles, where nothing but Process can make UnpackOne fail: control is in
\* UnpackOne or past its successful return, the process has not left through
\* Spool, nothing is spooled and a spool file replayed is not quarantined.
GoesOn ==
    /\ Last(outcomes).ret
    /\ input \in PlainBatches =>
          /\ pc \in {"unpack", "process", "unpacked", "wait", "terminal", "readdir", "quit"}
          /\ pc \in {"unpacked", "wait", "terminal"} => ok
          /\ mode # "U" => spool = {} /\ tmp = {}
          /\ mode = "U" => \A e \in bad : e.name # cur

\* Process returned FALSE and the batch is aborted: UnpackOne has returned
\* FALSE and is not entered again for this batch; a foreground invocation
\* leaves through Spool (one spool entry and status 0, or a failed system call
\* and a status that is not 0, unless the count of failed writes wrapped round
\* to 0; status 9 and no entry in no-spool mode); a replay quarantines the
\* file, or dies when it cannot.
Aborted ==
    /\ ~Last(outcomes).ret
    /\ ~ok
    /\ pc \in {"unpacked", "wait", "terminal", "readdir", "quit", "exit"}
    /\ pc = "quit" => mode = "U"
    /\ (Exited /\ mode = "") =>
          \/ faults = {} /\ status = 0 /\ Cardinality(spool) = 1 /\ tmp = {}
          \/ faults # {} /\ status > 0
          \/ "write" \in faults /\ Len(input) >= ExitModulus /\ status = 0
    /\ (Exited /\ mode = "N") => status = NoSpoolStatus /\ spool = {}
    /\ (mode = "U" /\ (pc \in {"readdir", "quit"} \/ (Exited /\ status = 0)))
          => Quarantined
    /\ (mode = "U" /\ Exited /\ status # 0)
          => status = DieStatus /\ faults \cap {"mkstemp", "rename"} # {}

\* In a batch of n byte-counted valid articles, the reply r at the given stage
\* for article k < n is followed by the offer of article k + 1.
NextOffered(stage, r) ==
    \A n \in 1..MaxArts :
       input = Batch(n, 0) =>
          \A i \in (mark.wire + 2)..(Len(wire) - 1) :
             (IsReply(wire[i], r) /\ wire[i - 1].op = stage /\ wire[i - 1].arg < n)
                 => wire[i + 1] = [op |-> "ihave", arg |-> wire[i - 1].arg + 1]

\* After the reply r at the given stage nothing is written to the peer for
\* this batch any more ("quit" ends a replay pass).
NothingAfter(stage, r) ==
    \A i, j \in (mark.wire + 2)..Len(wire) :
       (i < j /\ IsReply(wire[i], r) /\ wire[i - 1].op = stage) => wire[j].op = "quit"

\* C5: when the peer answers 435 to the offer of an article, Process records
\* a duplicate and returns TRUE, no article is written after that reply until
\* the next offer, and the batch goes on with the next article.
C5_DuplicateSkipsBodyAndGoesOn ==
    /\ Returned("ihave", NNTP_HAVEIT_VAL)
          => Last(outcomes).why = "duplicate" /\ GoesOn
    /\ \A i \in 2..(Len(wire) - 1) :
          (IsReply(wire[i], NNTP_HAVEIT_VAL) /\ wire[i - 1].op = "ihave")
              => wire[i + 1].op \in {"ihave", "quit"}
    /\ NextOffered("ihave", NNTP_HAVEIT_VAL)

\* Article 1 of a batch of two was answered 435, and article 2 was offered next.
C5_Witness ==
    /\ input = Batch(2, 0) /\ mode = ""
    /\ Len(wire) = 3
    /\ IsReply(wire[2], NNTP_HAVEIT_VAL)
    /\ wire[3] = [op |-> "ihave", arg |-> 2]
    /\ outcomes = <<[id |-> 1, why |-> "duplicate", ret |-> TRUE]>>

\* No offer of this batch names the article Process returned from last.
LastNotOffered ==
    \A i \in (mark.wire + 1)..Len(wire) :
       wire[i].op = "ihave" => wire[i].arg # Last(outcomes).id

\* C6, as stated: an article that lacks a required header is rejected by
\* itself: it is not offered, Process returns TRUE, the batch is neither
\* aborted nor spooled and goes on with the next article.
C6_MissingHeaderGoesOn ==
    ReturnedMissing => LastNotOffered /\ GoesOn

\* C6, amended: an article that lacks a required header is not offered, and
\* Process returns FALSE after Reject(): the batch is aborted there, the
\* articles after it are not looked at, and the batch is spooled (foreground)
\* or quarantined (replay).
C6_MissingHeaderAbortsBatch ==
    ReturnedMissing => LastNotOffered /\ Aborted

\* A foreground batch of two whose first article lacks its Date header was
\* spooled; nothing was written to the peer, and article 2 was left unread.
C6_Witness ==
    /\ Exited /\ mode = "" /\ input = Batch(2, 1) /\ status = 0
    /\ ReturnedMissing
    /\ wire = <<>>
    /\ rest = Unit(ArtOk(2))
    /\ Cardinality(spool) = 1

\* C7, as stated: a numeric final reply that is none of 240, 436 and 437 is
\* logged and the batch goes on: it is not aborted and nothing is spooled.
C7_UnknownFinalReplyGoesOn ==
    Returned("article", OtherCode) => GoesOn

\* C7, amended: a numeric final reply that is none of 240, 436 and 437 is
\* logged and falls through to the case of 436: Process returns FALSE, the
\* batch is aborted and spooled (foreground) or quarantined (replay), and
\* nothing more is written to the peer for it.
C7_UnknownFinalReplyAbortsBatch ==
    /\ Returned("article", OtherCode) => Aborted
    /\ NothingAfter("article", OtherCode)

\* A foreground batch of two was spooled after an unknown final reply to
\* article 1; article 2 was not offered.
C7_Witness ==
    /\ Exited /\ mode = "" /\ input = Batch(2, 0) /\ status = 0
    /\ Returned("article", OtherCode)
    /\ Len(wire) = 4
    /\ Cardinality(spool) = 1

\* C8: when the peer answers 437 to an article, Process records the
\* rejection and returns TRUE: the batch is not aborted, nothing is spooled,
\* and the next article of the batch is offered.
C8_RejectedGoesOn ==
    /\ Returned("article", NNTP_REJECTIT_VAL)
          => Last(outcomes).why = "rejected" /\ GoesOn
    /\ NextOffered("article", NNTP_REJECTIT_VAL)

\* Article 1 of a batch of two was answered 437, and article 2 was offered next.
C8_Witness ==
    /\ input = Batch(2, 0) /\ mode = ""
    /\ Len(wire) = 5
    /\ wire[3].op = "article"
    /\ IsReply(wire[4], NNTP_REJECTIT_VAL)
    /\ wire[5] = [op |-> "ihave", arg |-> 2]
    /\ spool = {}

\* C9: at either stage, a failed read of the reply and a reply that does not
\* start with a digit make Process return FALSE: the batch is aborted, nothing
\* more is written to the peer for it, and it is spooled (foreground) or
\* quarantined (replay).
C9_UnreadableReplyAbortsBatch ==
    \A stage \in {"ihave", "article"}, r \in {ReadFailed, NonNumeric} :
       /\ Returned(stage, r) => Aborted
       /\ NothingAfter(stage, r)

\* A replay pass has quarantined a file after a failed read of the reply to
\* an article.
C9_Witness ==
    /\ mode = "U" /\ pc = "readdir"
    /\ Returned("article", ReadFailed)
    /\ Quarantined

\* C10: for one "#! rnews N" line and the N bytes of a valid article, the peer
\* answering 335 to the offer and 240 to the article, there is exactly one
\* outcome, accepted; no spool entry is made; the exit status is 0.
C10_OneArticleAccepted ==
    ( /\ mode # "U" /\ input = Unit(ArtOk(1))
      /\ Len(wire) >= 4
      /\ SubSeq(wire, 1, 4) = <<[op |-> "ihave", arg |-> 1],
                                [op |-> "reply", arg |-> NNTP_SENDIT_VAL],
                                [op |-> "article", arg |-> 1],
                                [op |-> "reply", arg |-> NNTP_TOOKIT_VAL]>> )
        => /\ outcomes = <<[id |-> 1, why |-> "accepted", ret |-> TRUE]>>
           /\ spool = {} /\ tmp = {}
           /\ pc \in {"unpack", "unpacked", "wait", "quit", "exit"}
           /\ pc # "unpack" => ok
           /\ Exited => status = 0 /\ Last(wire).op = "quit"

\* The run of C10 has ended: one article accepted, status 0, no spool entry.
C10_Witness ==
    /\ Exited /\ mode = "" /\ input = Unit(ArtOk(1)) /\ status = 0
    /\ Len(wire) = 5 /\ IsReply(wire[4], NNTP_TOOKIT_VAL)
    /\ outcomes = <<[id |-> 1, why |-> "accepted", ret |-> TRUE]>>
    /\ spool = {}

\* The positions of wire, in the batch at hand, where op was written for
\* article k.
Written(op, k) ==
    {i \in (mark.wire + 1)..Len(wire) : wire[i] = [op |-> op, arg |-> k]}

\* C11: for a valid article the peer answers 335 to, one "ihave" with its
\* Message-ID is written and, right after the reply, the article once, and
\* nothing else for that article; the article is missing only when
\* NNTPsendarticle failed, and then nothing more is written for the batch.
C11_OneOfferOneArticle ==
    \A i \in (mark.wire + 2)..Len(wire) :
       (IsReply(wire[i], NNTP_SENDIT_VAL) /\ wire[i - 1].op = "ihave") =>
          LET k == wire[i - 1].arg IN
          /\ Written("ihave", k) = {i - 1}
          /\ Written("article", k) \subseteq {i + 1}
          /\ Written("article", k) = {}
                => /\ "send" \in faults
                   /\ \A j \in (i + 1)..Len(wire) : wire[j].op = "quit"
          /\ \A j \in Written("article", k) : j < Len(wire) => wire[j + 1].op = "reply"

\* The one article of a foreground input was offered and sent, once each.
C11_Witness ==
    /\ Exited /\ mode = "" /\ input = ArtOk(1)
    /\ Len(wire) = 5
    /\ wire[1] = [op |-> "ihave", arg |-> 1]
    /\ IsReply(wire[2], NNTP_SENDIT_VAL)
    /\ wire[3] = [op |-> "article", arg |-> 1]

\* C12: the articles of a batch are offered in the order of the stream (in
\* the inputs, the numbers of the Message-IDs rise along the stream), and an
\* offer that is not the first of its batch is written right after a reply
\* was read: the reply to the offer before it or to the article sent for that
\* offer.  An article is written right after the 335 to its own offer.
C12_OffersInOrderNoPipelining ==
    /\ \A i, j \in (mark.wire + 1)..Len(wire) :
          (i < j /\ wire[i].op = "ihave" /\ wire[j].op = "ihave")
              => wire[i].arg < wire[j].arg
    /\ \A i \in (mark.wire + 1)..Len(wire) :
          /\ (wire[i].op = "ihave" /\ i > mark.wire + 1) => wire[i - 1].op = "reply"
          /\ wire[i].op = "reply" => (i > mark.wire + 1 /\ wire[i - 1].op \in {"ihave", "article"})
          /\ wire[i].op = "article"
                => /\ i > mark.wire + 2
                   /\ IsReply(wire[i - 1], NNTP_SENDIT_VAL)
                   /\ wire[i - 2] = [op |-> "ihave", arg |-> wire[i].arg]

\* Both articles of a batch of two were offered, article 2 after the reply to
\* the article sent for offer 1.
C12_Witness ==
    /\ input = Batch(2, 0) /\ mode = ""
    /\ Len(wire) >= 5
    /\ wire[1] = [op |-> "ihave", arg |-> 1]
    /\ wire[3].op = "article"
    /\ wire[4].op = "reply"
    /\ wire[5] = [op |-> "ihave", arg |-> 2]

\* C13: when ReadBytecount hands an article to Process, the bytes of the
\* stream read so far end with a "#! rnews" line whose count is N and the N
\* bytes after it, what is left of the stream starts at the byte after these N
\* bytes, and the article is these N bytes, with one newline appended if and
\* only if the Nth byte is not a newline.  (Stated for a stream read directly
\* from the input file, where the stream is the input.)
C13_BytecountReadsExactlyN ==
    (pc = "process" /\ caller = "bytecount" /\ fdkind = "file") =>
        \E N \in 1..Len(input) :
           LET pre == Len(input) - Len(rest) - N
           IN  /\ \E h \in 10..pre :
                     LET hdr == SubSeq(input, pre - h + 1, pre)
                     IN  /\ Take(hdr, 9) = RnewsPrefix
                         /\ IndexOf(hdr, NL) = h
                         /\ Artsize(Take(hdr, h - 1)) = N
               /\ rest = SubSeq(input, pre + N + 1, Len(input))
               /\ LET a == SubSeq(input, pre + 1, pre + N)
                  IN  article = IF a[N] = NL THEN a ELSE a \o <<NL>>

\* A count that ends one byte before the article's last newline: the article
\* handed on has the newline appended, and the stream goes on at that newline.
C13_Witness ==
    /\ pc = "process" /\ caller = "bytecount" /\ fdkind = "file"
    /\ input = RnewsLine(Len(ArtOk(1)) - 1) \o ArtOk(1)
    /\ article = ArtOk(1)
    /\ rest = <<NL>>

\* ReadBytecount met the end of the stream before the declared bytes, and no
\* call of Process has returned since.
ShortRead ==
    /\ Len(outcomes) > mark.outcomes
    /\ Last(outcomes).why = "short"

\* The input whose count declares five bytes more than the stream holds.
ShortInput == RnewsLine(Len(ArtOk(1)) + 5) \o ArtOk(1)

\* UnpackOne has returned for the batch at hand.
Unpacked == pc \in {"unpacked", "wait", "quit", "terminal", "readdir", "exit"}

\* C14, as stated: the truncated article of a short read is passed to Process
\* and offered to the peer, and the batch is not aborted.
C14_TruncatedArticleOffered ==
    (ShortRead /\ Unpacked) =>
        /\ ok
        /\ \A k \in ArticlesOf(input) : Written("ihave", k) # {}

\* C14, amended: on a short read ReadBytecount warns and returns TRUE without
\* calling Process: the truncated article is neither offered nor rejected, the
\* stream is at its end, UnpackOne returns TRUE, and the batch counts as
\* delivered: a foreground invocation exits 0 with nothing spooled, a replay
\* removes the spool file.
C14_TruncatedArticleDropped ==
    /\ ShortRead =>
          /\ Last(outcomes).ret
          /\ rest = <<>>
          /\ pc \in {"unpack", "unpacked", "wait", "quit", "terminal", "readdir", "exit"}
          /\ pc \in {"unpacked", "wait", "terminal"} => ok
          /\ (Exited /\ mode # "U") => status = 0 /\ spool = {} /\ Last(wire).op = "quit"
          /\ (mode = "U" /\ pc = "readdir") => \A e \in bad : e.name # cur
    /\ input = ShortInput =>
          /\ Written("ihave", 1) = {}
          /\ (Unpacked /\ pc # "exit") => ShortRead

\* A foreground invocation has exited with status 0 after a short read:
\* nothing was offered, nothing spooled.
C14_Witness ==
    /\ Exited /\ mode = "" /\ status = 0 /\ input = ShortInput
    /\ ShortRead
    /\ wire = <<[op |-> "quit", arg |-> 0]>>
    /\ spool = {}

\* The foreground invocation has exited without saying "quit": through
\* Spool() or sysdie().
ExitedEarly ==
    /\ Exited /\ mode # "U"
    /\ ~(wire # <<>> /\ Last(wire).op = "quit")

\* C15, as stated: when children were spawned, all of them have been reaped
\* when the invocation has exited, whether the batch was delivered or aborted.
C15_AllChildrenReaped ==
    (Exited /\ spawned >= 1) => reaped = spawned

\* C15, amended: no more children are reaped than were spawned, and possibly
\* fewer: WaitForChildren(count) calls waitpid() with WNOHANG count times, which
\* reaps only children that have exited already, and a foreground invocation
\* that aborts the batch exits inside Spool() without calling
\* WaitForChildren: it reaps none.
C15_ReapsWhatHasExitedUnlessAborted ==
    /\ reaped <= spawned
    /\ pc \in {"open", "unpack", "process", "ihave", "sent", "unpacked"}
          => (mode # "U" => reaped = 0)
    /\ ExitedEarly => reaped = 0

\* A foreground invocation has spooled a batch after spawning one child, and
\* has exited without reaping it.
C15_Witness ==
    /\ ExitedEarly /\ mode = "" /\ ~ok
    /\ spawned = 1 /\ reaped = 0
    /\ Cardinality(spool) = 1
    /\ wire # <<>>

\* C16, as stated: when fork() has failed more often than the retry ceiling,
\* the foreground invocation spools the batch: a spool entry holds the bytes
\* of the input (all of them, or what was still unread).
C16_ForkFailureSpoolsBatch ==
    (Exited /\ mode = "" /\ "fork" \in faults /\ faults \subseteq {"fork", "read"})
        => \E e \in spool : e.content # <<>> /\ IsSuffix(e.content, input)

\* The entry the pass opened last is still in the spool directory, unchanged.
StillSpooled == \E e \in spool : e.name = cur /\ e.content = input
InQuarantine == \E e \in bad : e.name = cur

Processing == mode = "U" /\ pc \in {"unpack", "process", "ihave", "sent", "wait", "terminal"}

\* C18, as stated: under any interleaving of two replay passes of one spool
\* directory, no entry is being processed by both.
C18_NoEntryProcessedByBothPasses ==
    ~(Processing /\ other = cur)

\* C19, as stated: from the moment the lock on an entry is acquired until the
\* entry's terminal step is over, the pass holds the lock, whatever happens to
\* the descriptor the entry is read from.
C19_LockHeldWhileProcessing ==
    Processing => lock

\* The foreground invocation ended in Spool and no step of Spool failed.
SpooledForLater == mode = "" /\ Exited /\ faults \cap SpoolFaults = {} /\ spool # {}
\* The foreground invocation ended at the end of main(), after "quit".
Delivered == mode = "" /\ Exited /\ wire # <<>> /\ Last(wire).op = "quit"

\* C20, as stated: the exit status of a batch spooled for later delivery
\* differs from the exit status of a batch fully delivered.
C20_SpooledStatusDiffersFromDelivered ==
    SpooledForLater => status # DeliveredStatus

\* C20, amended: a foreground invocation that delivered the batch, or spooled
\* it without a failure, exits with the delivered status, 0.  Any other end is
\* a hard failure and its status is 1 or more, unless writes of the spool file
\* failed as many times as there are exit statuses (which takes an input of at
\* least that many bytes): the count of failures then wraps round to 0.
C20_ZeroForDeliveredOrSpooled ==
    (mode = "" /\ Exited) =>
        /\ (Delivered \/ SpooledForLater) => status = DeliveredStatus
        /\ (status = DeliveredStatus /\ ~Delivered /\ ~SpooledForLater)
               => "write" \in faults /\ Len(input) >= ExitModulus
        /\ status >= 0

\* C20 happens: a batch is spooled after a "resend later" reply and the exit
\* status is that of a delivery.
C20_Witness ==
    /\ SpooledForLater /\ status = DeliveredStatus
    /\ wire # <<>> /\ IsReply(Last(wire), NNTP_RESENDIT_VAL)

\* C21, as stated: when a step of Spool failed (the spool file could not be
\* created, written, closed or renamed), the exit status is not 0.
C21_SpoolFailureExitsNonZero ==
    (mode = "" /\ Exited
        /\ faults \cap {"mkstemp", "fchmod", "write", "close", "mkstemp2", "rename"} # {})
            => status # 0

\* C22: a replay pass goes on after a quarantine and the quarantine gives it no
\* exit status.  When a pass that quarantined entries has ended, its status is
\* 0 exactly when it ended with "quit", and then no entry was left unread; a
\* status other than 0 is the die status, and the entry the pass was on when it
\* died is still in the spool directory, not in quarantine.
C22_QuarantineDoesNotStopThePass ==
    /\ (mode = "U" /\ cur # 0 /\ ~ok /\ InQuarantine /\ faults = {})
          => (pc \in {"readdir", "quit"} /\ status = Running)
                \/ (Exited /\ status = 0 /\ todo = {})
    /\ (mode = "U" /\ Exited /\ bad # {}) =>
          /\ status = 0 <=> Last(wire).op = "quit"
          /\ status = 0 => todo = {}
          /\ status # 0 => status = DieStatus /\ StillSpooled /\ ~InQuarantine

\* C22 happens: the pass quarantined an entry, went on to another entry on
\* which UnpackOne succeeded, and exited with status 0.
C22_Witness ==
    /\ mode = "U" /\ Exited /\ status = 0
    /\ bad # {} /\ ok /\ ~InQuarantine /\ Len(outcomes) > mark.outcomes

\* The Message-ID numbers of the articles Process returned for, in the batch at
\* hand, in the order of the returns.
BatchIds == [i \in 1..(Len(outcomes) - mark.outcomes) |-> outcomes[mark.outcomes + i].id]

\* The complete, well-formed batches of n articles: plain, compressed, and
\* compressed behind a "#! cunbatch" line.
WellFormed(n) == {Batch(n, 0), Gz(Batch(n, 0)), CunbatchLine \o Gz(Batch(n, 0))}

\* UnpackOne returned TRUE for a batch of n articles and Process returned for
\* each of them, in the order of the batch.
AllReturned(n) ==
    (pc \in {"unpacked", "wait", "quit", "terminal"} /\ ok /\ faults = {})
        => BatchIds = [i \in 1..n |-> i]

\* C23, as stated: a complete, well-formed batch gives the same per-article
\* outcomes as the input of a foreground invocation as it gives as the content
\* of a spool file replayed.  In a replay, UnpackOne returning TRUE means that
\* Process returned for every article of the batch, in order; so it does in
\* the foreground.
C23_ForegroundAsReplay ==
    \A n \in 1..MaxArts : input \in WellFormed(n) => AllReturned(n)

\* UnpackOne has just returned for the batch at hand.
JustReturned == pc \in {"unpacked", "wait", "quit", "terminal"}

\* The inputs with a "#! cunbatch" line inside a decompressed stream.
NestedCunbatch ==
    {CunbatchLine \o Gz(CunbatchLine \o Gz(Unit(ArtOk(1)))),
     Gz(CunbatchLine \o Gz(Unit(ArtOk(1))))}

\* C24: a "#! cunbatch" line met after a decompression was started for the
\* batch (by a first such line, or by the gzip magic at the head of a stream
\* that can be rewound) makes UnpackOne return FALSE with one child started, the first, and no
\* article passed to Process.  The first "#! cunbatch" line of a batch starts
\* one child, whose output, the rest of the stream decompressed, is what
\* UnpackOne reads next; no batch with one "#! cunbatch" line gets a second
\* child.
C24_NestedCunbatchFailsFirstSpawnsOne ==
    /\ (input \in NestedCunbatch /\ JustReturned /\ faults = {}
            /\ (input[1] = GZ_MAGIC1 => mode = "U" \/ seekable))
          => ~ok /\ count = 1 /\ SawCunbatch /\ BatchIds = <<>>
    /\ \A n \in 1..MaxArts :
          (input = CunbatchLine \o Gz(Batch(n, 0)) /\ faults = {}) =>
              /\ count \in {0, 1}
              /\ (pc = "unpack" /\ count = 0) => rest = input
              /\ (pc = "unpack" /\ count = 1 /\ ~HadCount) =>
                    /\ fdkind = "pipe" /\ SawCunbatch
                    /\ rest = Batch(n, 0)

\* C24 happens: the second "#! cunbatch" line of a batch was read from the
\* child the first one started, and UnpackOne returned FALSE.
C24_Witness ==
    /\ input = CunbatchLine \o Gz(CunbatchLine \o Gz(Unit(ArtOk(1))))
    /\ JustReturned /\ ~ok /\ count = 1 /\ spawned = 1 /\ faults = {}
    /\ rest = Gz(Unit(ArtOk(1)))

\* "#! rnews <text>\n" followed by article 1, whose length is the right count.
CountLine(text) == RnewsPrefix \o text \o <<NL>> \o ArtOk(1)
\* Nothing was written to the peer and nothing passed to Process in the batch
\* at hand.
NothingDone == Len(wire) = mark.wire /\ BatchIds = <<>>

\* C25, as stated: a count that is no integer, here the right count followed
\* by a letter, fails the batch and no article is read or offered.
C25_NonIntegerCountFails ==
    (input = CountLine(Digits(Len(ArtOk(1))) \o <<120>>) /\ JustReturned /\ faults = {})
        => ~ok /\ NothingDone

\* C25, amended: the count is what atoi() makes of the text, and the line fails
\* the batch, with no article read or passed on, exactly when that is 0 or
\* less: "0", "-5" and "x" fail; a count followed by bytes that are no digits
\* is taken for the count, and the article is read and passed to Process.
C25_CountIsAtoiOfText ==
    /\ \A text \in {<<48>>, <<45, 53>>, <<120>>} :
          (input = CountLine(text) /\ JustReturned)
              => ~ok /\ NothingDone /\ ~HadCount /\ (fdkind = "file" => rest = ArtOk(1))
    /\ (input = CountLine(Digits(Len(ArtOk(1))) \o <<120>>) /\ JustReturned /\ faults = {})
          => HadCount /\ BatchIds = <<1>> /\ rest = <<>>

\* C25 happens: the article behind the count "15x" was accepted by the peer.
C25_Witness ==
    /\ input = CountLine(Digits(Len(ArtOk(1))) \o <<120>>)
    /\ JustReturned /\ ok /\ HadCount
    /\ Len(outcomes) > 0 /\ Last(outcomes) = [id |-> 1, why |-> "accepted", ret |-> TRUE]

\* A command line cut by the end of the stream, and one longer than the buffer.
CutLine == Take(RnewsLine(15), 6)
LongLine == <<RNEWS_MAGIC1, RNEWS_MAGIC2>> \o [i \in 1..SMBUF |-> 120]

\* The batch at hand was put aside: spooled by the foreground invocation,
\* quarantined by the replay pass.
Persisted ==
    IF mode = "U" THEN Quarantined
    ELSE \E e \in spool : e.content # <<>> /\ IsSuffix(e.content, input)

\* C26, as stated: an invocation that met a malformed command line, too long
\* or cut by the end of the stream, does not end without the batch put aside
\* (the input of the foreground invocation being one that can be rewound).
C26_MalformedLinePersisted ==
    (input \in {CutLine, LongLine} /\ Exited /\ faults = {}
        /\ ((mode = "" /\ seekable) \/ (mode = "U" /\ cur # 0)))
            => Persisted

\* The text s with every CR LF pair replaced by LF.
RECURSIVE CrlfToLf(_)
CrlfToLf(s) ==
    IF s = <<>> THEN <<>>
    ELSE IF Len(s) >= 2 /\ s[1] = CR /\ s[2] = NL THEN <<NL>> \o CrlfToLf(Drop(s, 2))
    ELSE <<Head(s)>> \o CrlfToLf(Tail(s))

\* ReadRemainder has built its buffer and is calling Process on it.
RemainderHanded == pc = "process" /\ caller = "remainder"

\* C27, as stated: the article ReadRemainder hands to Process (a C string) is
\* the stream with every CR LF replaced by LF; the lines after the first CR LF
\* line are in it.
C27_RemainderIsStreamWithLf ==
    (RemainderHanded /\ input = Crlf(ArtOk(1)))
        => CStr(article) = CrlfToLf(input)

\* The number of newlines at the end of s.
RECURSIVE TrailingNewlines(_)
TrailingNewlines(s) ==
    IF s = <<>> \/ s[Len(s)] # NL THEN 0 ELSE 1 + TrailingNewlines(Take(s, Len(s) - 1))

\* C28, as stated: the article ReadRemainder hands to Process ends with one
\* newline and no more, whatever the end of the input.
C28_RemainderEndsWithOneNewline ==
    RemainderHanded => TrailingNewlines(CStr(article)) = 1

\* C28, amended: the article ReadRemainder hands to Process ends with a
\* newline: one is added when the buffer does not end with one, and the
\* newlines at the end of the input are all kept.  For an input without CR and
\* NUL the article is the input, followed by a newline when it had none.
C28_RemainderEndsWithNewline ==
    RemainderHanded =>
        /\ TrailingNewlines(CStr(article)) >= 1
        /\ article[Len(article)] = NL
        /\ (fdkind = "file" /\ IndexOf(input, CR) = 0 /\ IndexOf(input, NUL) = 0) =>
              /\ article = IF input[Len(input)] = NL THEN input ELSE input \o <<NL>>
              /\ TrailingNewlines(article) = IF TrailingNewlines(input) = 0 THEN 1
                                             ELSE TrailingNewlines(input)

\* C28 happens: an input that ends with two newlines is handed on with both.
C28_Witness ==
    /\ RemainderHanded /\ input = ArtOk(1) \o <<NL>>
    /\ article = input /\ TrailingNewlines(CStr(article)) = 2

\* What follows the counted article 1 in the inputs of C29: a raw article, a
\* '#' with no '!' behind it, and a "#! cunbatch" line.
AfterCountTails ==
    {ArtOk(2), <<RNEWS_MAGIC1, 120, NL>>, CunbatchLine \o Gz(Unit(ArtOk(2)))}

\* C29: once a byte count was parsed in a batch, no article reaches Process
\* through ReadRemainder.  A unit after the counted article 1 that is no
\* "#! rnews" unit makes UnpackOne return FALSE: Process was called for
\* article 1 only and no child was started.
C29_NoRawModeAfterCount ==
    /\ (HadCount /\ pc \in {"process", "ihave", "sent"}) => caller = "bytecount"
    /\ \A tail \in AfterCountTails :
          (input = Unit(ArtOk(1)) \o tail /\ JustReturned)
              => ~ok /\ BatchIds = <<1>> /\ count = 0

\* C29 happens: article 1 was accepted and the raw article behind it made
\* UnpackOne return FALSE with that article unread by Process.
C29_Witness ==
    /\ input = Unit(ArtOk(1)) \o ArtOk(2) /\ JustReturned /\ ~ok /\ HadCount
    /\ Last(outcomes) = [id |-> 1, why |-> "accepted", ret |-> TRUE]
    /\ Len(rest) = Len(ArtOk(2)) - 1

\* C30, as stated: an input that is the one byte '#' is read as a raw article,
\* which Process is called on; it is no batch failure of the decoder.
C30_OneByteIsRawArticle ==
    (input = <<RNEWS_MAGIC1>> /\ JustReturned) => Len(BatchIds) = 1

\* C30, amended: a '#' followed by a byte that is not '!' starts a raw
\* article: ReadRemainder builds it from the two bytes read and the rest of
\* the stream, and Process is called on it.  A stream that ends after the '#'
\* makes UnpackOne return FALSE with nothing passed to Process.
C30_IncompleteMagic ==
    /\ (input = <<RNEWS_MAGIC1, 120, NL>> /\ pc = "process")
          => caller = "remainder" /\ article = input /\ rest = <<>>
    /\ (input = <<RNEWS_MAGIC1, 120, NL>> /\ JustReturned) => Len(BatchIds) = 1
    /\ (input = <<RNEWS_MAGIC1>> /\ JustReturned)
          => ~ok /\ NothingDone /\ rest = <<>>

\* C30 happens: UnpackOne returned FALSE for the one-byte input.
C30_Witness ==
    input = <<RNEWS_MAGIC1>> /\ JustReturned /\ ~ok /\ NothingDone /\ rest = <<>>

\* The last call of Process in this batch found the Message-ID header without
\* its newline.
ReturnedUnterminated ==
    /\ Len(outcomes) > mark.outcomes
    /\ Last(outcomes).why = "unterminated"
    /\ (wire # <<>> /\ Last(wire).op = "quit") => Len(wire) = mark.wire + 1

\* C31, as stated: an article whose Message-ID header has no newline is not
\* offered and is rejected alone: the batch is neither aborted nor spooled and
\* goes on with the next article.
C31_UnterminatedGoesOn ==
    ReturnedUnterminated => LastNotOffered /\ GoesOn

\* C31, amended: an article whose Message-ID header has no newline is not
\* offered, and Process returns FALSE after Reject(): the batch is aborted
\* there, the articles after it are not looked at, and the batch is spooled
\* (foreground) or quarantined (replay).
C31_UnterminatedAbortsBatch ==
    ReturnedUnterminated => LastNotOffered /\ Aborted

\* C31 happens: a foreground batch whose first article has an unterminated
\* Message-ID was spooled; nothing was written to the peer and article 2 was
\* left unread.
C31_Witness ==
    /\ Exited /\ mode = "" /\ status = 0
    /\ input = Unit(ArtUnterminated(1)) \o Unit(ArtOk(2))
    /\ ReturnedUnterminated
    /\ wire = <<>>
    /\ rest = Unit(ArtOk(2))
    /\ Cardinality(spool) = 1

\* C32: WaitForChildren(count) makes at most count calls of waitpid(), none of
\* which fails to return, and comes to its end, whether the children of the
\* batch have exited or not and whether children of earlier batches are
\* still there or not.
C32_WaitForChildrenTerminates ==
    /\ [](waits <= count /\ pc # "blocked")
    /\ (pc = "wait") ~> (pc \in {"terminal", "quit"})

\* C32 happens: WaitForChildren is over after one call for the one child of the
\* batch, and the child has not been waited for.
C32_Witness ==
    /\ pc \in {"terminal", "quit"} /\ count = 1 /\ waits = 1
    /\ spawned = 1 /\ reaped = 0

\* C33: an article is written to the peer only right after the reply 335 to
\* the offer of that same article.  After any other reply to an offer no
\* article follows; after an unknown numeric reply to an offer Process rejects
\* the article and returns TRUE, and the batch goes on with the next article.
C33_BodyOnlyAfterSendIt ==
    /\ \A i \in 1..Len(wire) :
          wire[i].op = "article" =>
              /\ i >= 3
              /\ IsReply(wire[i - 1], NNTP_SENDIT_VAL)
              /\ wire[i - 2] = [op |-> "ihave", arg |-> wire[i].arg]
    /\ \A i \in 2..(Len(wire) - 1) :
          (wire[i - 1].op = "ihave" /\ wire[i].op = "reply"
                /\ wire[i].arg # NNTP_SENDIT_VAL)
              => wire[i + 1].op \in {"ihave", "quit"}
    /\ Returned("ihave", OtherCode)
          => Last(outcomes).why = "unknown1" /\ GoesOn
    /\ NextOffered("ihave", OtherCode)

\* C33 happens: the offer of article 1 of a batch of two was answered with an
\* unknown code, no article was written, and article 2 was offered next.
C33_Witness ==
    /\ input = Batch(2, 0) /\ mode = ""
    /\ Len(wire) = 3
    /\ IsReply(wire[2], OtherCode)
    /\ wire[3] = [op |-> "ihave", arg |-> 2]
    /\ outcomes = <<[id |-> 1, why |-> "unknown1", ret |-> TRUE]>>

\* C34, as stated: under any interleaving of a foreground rnews that creates
\* its final spool name and then renames its temporary file onto it with a
\* replay pass, the entry the pass unlinks holds exactly the bytes the pass
\* read and ran through UnpackOne.
C34_UnlinksOnlyWhatItProcessed ==
    [][(pc = "terminal" /\ pc' = "readdir" /\ ok)
          => \A e \in spool \ spool' : e.content = input]_vars

\* C35, as stated: whenever UnpackOne starts a decompression child after it
\* recognised a two-byte compression magic, the child's standard input is the
\* compressed unit from its first magic byte on, so that what the child writes
\* is the decoding of the bytes the unit starts with, on a seekable file and on
\* a pipe alike.
C35_ChildReadsUnitFromItsMagic ==
    [][(pc = "unpack" /\ Len(rest) >= 2 /\ FirstIsMagic /\ IsCompressed
            /\ spawned' = spawned + 1)
          => rest' = Gunzip(rest)]_vars

\* C36, as stated: in every iteration of the loop of UnpackOne the compression
\* branch is taken only when the unit starts with 0x1f and 0x8b or 0x9d, and a
\* unit is read as a "#!" command line only when it starts with '#' and '!',
\* whatever units came before it in the batch.
C36_RecognitionByLeadingBytes ==
    /\ ENABLED UnpackCompressed
          => B0 = GZ_MAGIC1 /\ B1 \in {GZ_MAGIC2, Z_MAGIC2}
    /\ ENABLED (UnpackLineDie \/ UnpackLineTooLong \/ UnpackRnews \/ UnpackAfterCount
                    \/ UnpackCunbatch \/ UnpackOtherCommand)
          => B0 = RNEWS_MAGIC1 /\ B1 = RNEWS_MAGIC2

\* C37: when the link to the server cannot be opened (the step from the start
\* of main() straight to exit()), nothing is offered.  A foreground invocation
\* calls Spool on its input from the first byte: what it leaves in the spool
\* directory starts at the first byte of the input, and when no step of Spool
\* fails it is one new entry holding the entire input.  A replay pass exits
\* with status 1 and leaves every file as it was.
C37_CantConnectSpoolsOrExits ==
    [][(pc = "open" /\ pc' = "exit") =>
          /\ wire' = <<>> /\ outcomes' = <<>>
          /\ mode = "U" =>
                /\ status' = DieStatus
                /\ spool' = spool /\ tmp' = tmp /\ bad' = bad
          /\ mode = "" =>
                /\ \A e \in (spool' \ spool) \cup (tmp' \ tmp) :
                       e.content = Take(input, Len(e.content))
                /\ faults' = {} =>
                       /\ spool' \ spool = {[name |-> NewName, content |-> input]}
                       /\ tmp' = tmp]_vars

\* C37 happens: a batch of two articles on a pipe was spooled whole and nothing
\* was offered.
C37_Witness ==
    /\ mode = "" /\ Exited /\ ~seekable
    /\ input = Batch(2, 0)
    /\ wire = <<>> /\ outcomes = <<>>
    /\ spool = {[name |-> 1, content |-> input]}

\* C38: with -N no step creates or changes a file of the spool directory, and
\* the two steps that would spool, CantConnect (from the start of main()) and
\* the failure of UnpackOne (WholeBatchAbort), exit with status 9.
C38_NoSpoolModeLeavesSpoolAlone ==
    [][mode = "N" =>
          /\ spool' = spool /\ tmp' = tmp
          /\ (pc \in {"open", "unpacked"} /\ pc' = "exit") => status' = NoSpoolStatus]_vars

\* C38 happens: with -N the server answered "resend later" to an offer and the
\* invocation exited with status 9, the spool directory empty.
C38_Witness ==
    /\ mode = "N" /\ Exited /\ status = NoSpoolStatus
    /\ wire # <<>> /\ IsReply(Last(wire), NNTP_RESENDIT_VAL)
    /\ spool = {} /\ tmp = {}

\* C39: for every retry ceiling maxforks from 0 on, and however long fork()
\* goes on failing, StartChild comes to an end having called fork() at most
\* maxforks + 1 times, with one sleep() between two consecutive calls; it then
\* has returned the read end of the pipe (a child was started) or -1, and -1
\* only after maxforks + 1 failed calls.
C39_ForkAttemptsBounded ==
    /\ forks.attempts <= maxforks + 1
    /\ forks.attempts >= 1 =>
          /\ forks.sleeps = forks.attempts - 1
          /\ forks.ret \in {"pan[PIPE_READ]", "-1"}
    /\ forks.ret = "-1" => forks.attempts = maxforks + 1 /\ "fork" \in faults
    /\ forks.ret = "pan[PIPE_READ]" => spawned >= 1

\* C39 happens: with the largest ceiling looked at, fork() failed on every
\* call and StartChild returned -1 after one call more than the ceiling.
C39_Witness ==
    /\ maxforks = MaxForks /\ MaxForks > 0
    /\ forks = [attempts |-> MaxForks + 1, sleeps |-> MaxForks, ret |-> "-1"]
    /\ pc = "unpacked" /\ ~ok /\ fdkind = "bad"

=============================================================================
